---- MODULE Spec2Model ----
(***************************************************************************)
(* Recurring-payment and credit-card billing-cycle engine of               *)
(* organizador-financeiro (backend/app/services/payment_service.py and     *)
(* backend/app/services/credit_card_service.py).                           *)
(*                                                                         *)
(* Dates are proleptic Gregorian ordinals (datetime.date.toordinal()),     *)
(* amounts are integer cents (Numeric(15, 2)), None/NULL is the value None.*)
(***************************************************************************)
EXTENDS Integers, Sequences, FiniteSets, TLC

VARIABLES cards, bank_accounts, payments, occurrences, overrides, next_id, last

vars == <<cards, bank_accounts, payments, occurrences, overrides, next_id, last>>

\* Python None / SQL NULL for optional ids, dates and amounts.
None == -1

\* The marker a raised ValueError leaves where a date was expected.
ValueError == -2

NotFound == [found |-> FALSE]

Min(a, b) == IF a <= b THEN a ELSE b

(***************************************************************************)
(* Calendar: datetime.date, calendar.monthrange, timedelta                 *)
(***************************************************************************)
IsLeap(y) == (y % 4 = 0) /\ ((y % 100 # 0) \/ (y % 400 = 0))

\* calendar.monthrange(year, month)[1]
DaysInMonth(y, m) ==
    IF m = 2 THEN (IF IsLeap(y) THEN 29 ELSE 28)
    ELSE IF m \in {4, 6, 9, 11} THEN 30 ELSE 31

DaysInYear(y) == IF IsLeap(y) THEN 366 ELSE 365

DaysBeforeYear(y) ==
    365 * (y - 1) + ((y - 1) \div 4) - ((y - 1) \div 100) + ((y - 1) \div 400)

\* days of the year before the first day of month m
DaysBeforeMonth(y, m) ==
    <<0, 31, 59, 90, 120, 151, 181, 212, 243, 273, 304, 334>>[m]
        + (IF m > 2 /\ IsLeap(y) THEN 1 ELSE 0)

\* date(y, m, d).toordinal() of a valid date
ToOrdinal(y, m, d) == DaysBeforeYear(y) + DaysBeforeMonth(y, m) + d

\* date(year, month, day): raises ValueError when the day is not in the month
date(y, m, d) ==
    IF m \in 1..12 /\ d >= 1 /\ d <= DaysInMonth(y, m)
    THEN ToOrdinal(y, m, d) ELSE ValueError

YearOf(n) ==
    CHOOSE y \in (n \div 366)..((n \div 365) + 1) :
        DaysBeforeYear(y) < n /\ n <= DaysBeforeYear(y) + DaysInYear(y)

\* the month of year y that holds the r-th day of the year
MonthOfYearDay(y, r) ==
    CHOOSE m \in 1..12 :
        DaysBeforeMonth(y, m) < r /\ r <= DaysBeforeMonth(y, m) + DaysInMonth(y, m)

MonthInYear(n, y) == MonthOfYearDay(y, n - DaysBeforeYear(y))

MonthOf(n) == MonthInYear(n, YearOf(n))

DayInYear(n, y) == n - DaysBeforeYear(y) - DaysBeforeMonth(y, MonthInYear(n, y))

DayOf(n) == DayInYear(n, YearOf(n))

\* d + timedelta(days=k)
AddDays(d, k) == d + k

(***************************************************************************)
(* CreditCardService: date helpers and the billing cycle                   *)
(***************************************************************************)
RECURSIVE shift_month_norm(_, _)
shift_month_norm(new_year, new_month) ==
    IF new_month < 1 THEN shift_month_norm(new_year - 1, new_month + 12)
    ELSE IF new_month > 12 THEN shift_month_norm(new_year + 1, new_month - 12)
    ELSE <<new_year, new_month>>

shift_month_same_year(year, month, delta) == <<year, ((month + delta - 1) % 12) + 1>>

shift_month(year, month, delta) == shift_month_norm(year, month + delta)

safe_day_unclamped(day, last_day) == day

safe_day(day, last_day) == Min(day, last_day)

build_date_with_day(year, month, day) ==
    date(year, month, safe_day(day, DaysInMonth(year, month)))

NewCard(card_id, user_id, invoice_close_day, payment_due_day, default_payment_account_id) ==
    [id |-> card_id, user_id |-> user_id, name |-> "Card", currency |-> "USD",
     current_balance |-> 0, invoice_close_day |-> invoice_close_day,
     payment_due_day |-> payment_due_day,
     default_payment_account_id |-> default_payment_account_id]

get_card(card_id, user_id) ==
    LET rows == {c \in cards : c.id = card_id /\ c.user_id = user_id}
    IN  IF rows = {} THEN NotFound
        ELSE [found |-> TRUE, card |-> CHOOSE c \in rows : TRUE]

in_current_month_cycle_strict(reference_date, close_date) == reference_date < close_date

\* the branch condition of get_invoice_cycle
in_current_month_cycle(reference_date, close_date) == reference_date <= close_date

due_date_as_day_of_month(close_date, payment_due_day) ==
    LET nm == shift_month(YearOf(close_date), MonthOf(close_date), 1)
    IN  build_date_with_day(nm[1], nm[2], payment_due_day)

\* due_date = close_date + timedelta(days=card.payment_due_day)
cycle_due_date(close_date, payment_due_day) == AddDays(close_date, payment_due_day)

\* cycles that start on the close date of the cycle before
cycle_from_close(card, reference_date, prev_close, close_date, next_close) ==
    LET first == in_current_month_cycle(reference_date, close_date)
    IN  [found |-> TRUE,
         cycle_start_date |-> IF first THEN prev_close ELSE close_date,
         cycle_end_date |-> IF first THEN close_date ELSE next_close,
         close_date |-> IF first THEN close_date ELSE next_close,
         due_date |-> cycle_due_date(IF first THEN close_date ELSE next_close,
                                     card.payment_due_day)]

\* lines 156-175: the two branches, given the three close dates around the
\* reference date; in the second branch close_date is reassigned to next_close
cycle_of_closes(card, reference_date, prev_close, close_date, next_close) ==
    LET first == in_current_month_cycle(reference_date, close_date)
        cycle_start == IF first THEN AddDays(prev_close, 1) ELSE AddDays(close_date, 1)
        cycle_end == IF first THEN close_date ELSE next_close
        final_close == IF first THEN close_date ELSE next_close
    IN  [found |-> TRUE,
         cycle_start_date |-> cycle_start,
         cycle_end_date |-> cycle_end,
         close_date |-> final_close,
         due_date |-> cycle_due_date(final_close, card.payment_due_day)]

\* lines 153-166: the close dates of the reference month, the month before
\* and the month after (pm, nm: the shifted <<year, month>>)
cycle_of_months(card, reference_date, y, m, pm, nm) ==
    cycle_of_closes(card, reference_date,
                    build_date_with_day(pm[1], pm[2], card.invoice_close_day),
                    build_date_with_day(y, m, card.invoice_close_day),
                    build_date_with_day(nm[1], nm[2], card.invoice_close_day))

cycle_in_month(card, reference_date, y, m) ==
    cycle_of_months(card, reference_date, y, m, shift_month(y, m, -1), shift_month(y, m, 1))

\* lines 152-175, for the card row loaded
cycle_of_card(card, reference_date) ==
    cycle_in_month(card, reference_date, YearOf(reference_date), MonthOf(reference_date))

get_invoice_cycle(card_id, user_id, reference_date) ==
    LET got == get_card(card_id, user_id)
    IN  IF ~got.found THEN NotFound ELSE cycle_of_card(got.card, reference_date)

(***************************************************************************)
(* CreditCardService: statement summary                                    *)
(***************************************************************************)
\* rows of a query as a list; a query without ORDER BY is taken in id order
RECURSIVE RowsById(_)
RowsById(rows) ==
    IF rows = {} THEN <<>>
    ELSE LET r == CHOOSE x \in rows : \A z \in rows : x.id <= z.id
         IN  <<r>> \o RowsById(rows \ {r})

\* list.sort(key=transaction_date): stable insertion into a sorted list
RECURSIVE InsertByDate(_, _)
InsertByDate(sorted, t) ==
    IF sorted = <<>> THEN <<t>>
    ELSE IF t.transaction_date < Head(sorted).transaction_date THEN <<t>> \o sorted
    ELSE <<Head(sorted)>> \o InsertByDate(Tail(sorted), t)

RECURSIVE SortByDate(_, _)
SortByDate(sorted, rest) ==
    IF rest = <<>> THEN sorted
    ELSE SortByDate(InsertByDate(sorted, Head(rest)), Tail(rest))

references_card(payment, card_id) ==
    \/ (payment.from_account_type = "credit_card" /\ payment.from_account_id = card_id)
    \/ (payment.to_account_type = "credit_card" /\ payment.to_account_id = card_id)

Excluded == {"cancelled", "failed"}

direction_by_source(payment, card_id) ==
    IF payment.from_account_type = "credit_card" /\ payment.from_account_id = card_id
    THEN "charge" ELSE "payment"

\* lines 215-219 and 258-262
direction_of(payment, card_id) ==
    IF payment.to_account_type = "credit_card" /\ payment.to_account_id = card_id
    THEN "payment" ELSE "charge"

occurrence_line(occurrence, payment, card_id) ==
    LET direction == direction_of(payment, card_id)
    IN  [payment_id |-> payment.id, occurrence_id |-> occurrence.id,
         description |-> payment.description, amount |-> occurrence.amount,
         signed_amount |-> IF direction = "payment" THEN -occurrence.amount
                           ELSE occurrence.amount,
         transaction_date |-> occurrence.scheduled_date,
         status |-> occurrence.status, direction |-> direction]

one_time_line(payment, card_id) ==
    LET direction == direction_of(payment, card_id)
    IN  [payment_id |-> payment.id, occurrence_id |-> None,
         description |-> payment.description, amount |-> payment.amount,
         signed_amount |-> IF direction = "payment" THEN -payment.amount
                           ELSE payment.amount,
         transaction_date |-> payment.due_date,
         status |-> payment.status, direction |-> direction]

\* charges_total += amount / payments_total += amount over the lines, in order
RECURSIVE accumulate(_, _, _)
accumulate(lines, i, totals) ==
    IF i > Len(lines) THEN totals
    ELSE accumulate(lines, i + 1,
                    IF lines[i].direction = "charge"
                    THEN [totals EXCEPT !.charges_total = @ + lines[i].amount]
                    ELSE [totals EXCEPT !.payments_total = @ + lines[i].amount])

balance_as_sum(charges_total, payments_total) == charges_total + payments_total

statement_balance_of(charges_total, payments_total) == charges_total - payments_total

\* the Payment row an occurrence is joined to
payment_of(o) == CHOOSE p \in payments : p.id = o.payment_id

\* lines 193-207
occurrence_rows_of(user_id, card_id, cycle_start, cycle_end) ==
    {o \in occurrences :
        /\ \E p \in payments : p.id = o.payment_id
        /\ payment_of(o).user_id = user_id
        /\ o.scheduled_date >= cycle_start
        /\ o.scheduled_date <= cycle_end
        /\ o.status \notin Excluded
        /\ references_card(payment_of(o), card_id)}

\* lines 240-255
one_time_rows_of(user_id, card_id, cycle_start, cycle_end, seen_payment_ids) ==
    {p \in payments :
        /\ p.user_id = user_id
        /\ p.id \notin seen_payment_ids
        /\ p.due_date # None
        /\ p.due_date >= cycle_start
        /\ p.due_date <= cycle_end
        /\ p.status \notin Excluded
        /\ references_card(p, card_id)}

\* the transactions in the order the two loops append them
statement_lines(occ_list, one_list, card_id) ==
    [i \in 1..Len(occ_list) |-> occurrence_line(occ_list[i], payment_of(occ_list[i]), card_id)]
    \o [i \in 1..Len(one_list) |-> one_time_line(one_list[i], card_id)]

\* lines 282-298: the returned dict
summary_of_totals(card_id, user_id, reference_date, cycle, totals, transactions) ==
    [found |-> TRUE, card_id |-> card_id, user_id |-> user_id,
     reference_date |-> reference_date,
     cycle_start_date |-> cycle.cycle_start_date,
     cycle_end_date |-> cycle.cycle_end_date,
     close_date |-> cycle.close_date, due_date |-> cycle.due_date,
     transaction_count |-> Len(transactions),
     charges_total |-> totals.charges_total,
     payments_total |-> totals.payments_total,
     statement_balance |-> statement_balance_of(totals.charges_total,
                                                totals.payments_total),
     transactions |-> transactions]

summary_of_lines(card_id, user_id, reference_date, cycle, lines) ==
    summary_of_totals(card_id, user_id, reference_date, cycle,
                      accumulate(lines, 1, [charges_total |-> 0, payments_total |-> 0]),
                      SortByDate(<<>>, lines))

no_seen_payment_ids(occurrence_rows) == {}

\* seen_payment_ids.add(payment.id) for every occurrence row
seen_payment_ids_of(occurrence_rows) == {o.payment_id : o \in occurrence_rows}

summary_of_rows(card_id, user_id, reference_date, cycle, occurrence_rows) ==
    summary_of_lines(card_id, user_id, reference_date, cycle,
        statement_lines(
            RowsById(occurrence_rows),
            RowsById(one_time_rows_of(user_id, card_id, cycle.cycle_start_date,
                                      cycle.cycle_end_date,
                                      seen_payment_ids_of(occurrence_rows))),
            card_id))

summary_in_cycle(card_id, user_id, reference_date, cycle) ==
    summary_of_rows(card_id, user_id, reference_date, cycle,
        occurrence_rows_of(user_id, card_id, cycle.cycle_start_date, cycle.cycle_end_date))

\* lines 186-298, for the card row loaded
summary_of_card(card, user_id, reference_date) ==
    summary_in_cycle(card.id, user_id, reference_date, cycle_of_card(card, reference_date))

get_statement_summary(card_id, user_id, reference_date) ==
    LET got == get_card(card_id, user_id)
    IN  IF ~got.found THEN NotFound
        ELSE summary_of_card(got.card, user_id, reference_date)

(***************************************************************************)
(* PaymentService                                                          *)
(***************************************************************************)
NoneStr == "None"

Frequencies == {"daily", "weekly", "monthly", "quarterly", "yearly"}

\* date.today(): fixed for the whole run
Today == ToOrdinal(2025, 2, 10)

\* d + relativedelta(months=k): the day is clamped to the target month
AddMonths(d, k) ==
    LET nm == shift_month_norm(YearOf(d), MonthOf(d) + k)
    IN  ToOrdinal(nm[1], nm[2], Min(DayOf(d), DaysInMonth(nm[1], nm[2])))

next_monthly(start_date) == AddMonths(start_date, 1)

calculate_next_due_date(start_date, frequency) ==
    IF frequency = "daily" THEN AddDays(start_date, 1)
    ELSE IF frequency = "weekly" THEN AddDays(start_date, 7)
    ELSE IF frequency = "monthly" THEN next_monthly(start_date)
    ELSE IF frequency = "quarterly" THEN AddMonths(start_date, 3)
    ELSE IF frequency = "yearly" THEN AddMonths(start_date, 12)
    ELSE start_date

affected_in_range(target_date, override) ==
    /\ target_date >= override.effective_date
    /\ (override.end_date = None \/ target_date <= override.end_date)

is_date_affected(target_date, override) ==
    IF target_date < override.effective_date THEN FALSE
    ELSE IF override.end_date # None /\ target_date > override.end_date THEN FALSE
    ELSE IF override.target_date # None THEN target_date = override.target_date
    ELSE TRUE

call_is_date_affected(target_date, override) ==
    /\ last' = [op |-> "_is_date_affected", target_date |-> target_date,
                override |-> override,
                result |-> is_date_affected(target_date, override)]
    /\ UNCHANGED <<cards, bank_accounts, payments, occurrences, overrides, next_id>>

\* Decimal truthiness of override.new_amount: None and 0.00 are falsy
Truthy(amount) == amount # None /\ amount # 0

skip_ignored(override) == FALSE

skip_or_change_date_breaks(override) == override.override_type \in {"skip", "change_date"}

\* override.override_type == 'skip': should_skip = True; break
skip_breaks(override) == override.override_type = "skip"

\* for override in overrides: ... (lines 378-387), from the i-th override on
RECURSIVE resolve_overrides(_, _, _, _)
resolve_overrides(i, ovs, current_date, amount) ==
    IF i > Len(ovs) THEN [should_skip |-> FALSE, amount |-> amount]
    ELSE IF is_date_affected(current_date, ovs[i]) THEN
        IF skip_breaks(ovs[i])
        THEN [should_skip |-> TRUE, amount |-> amount]
        ELSE IF ovs[i].override_type = "change_amount" /\ Truthy(ovs[i].new_amount)
        THEN resolve_overrides(i + 1, ovs, current_date, ovs[i].new_amount)
        ELSE resolve_overrides(i + 1, ovs, current_date, amount)
    ELSE resolve_overrides(i + 1, ovs, current_date, amount)

active_overrides(payment_id) ==
    LET Keep(o) == o.payment_id = payment_id /\ o.is_active
    IN  SelectSeq(overrides, Keep)

existing_dates_unchecked(current_date, existing_dates) == TRUE

\* if current_date not in existing_dates
not_in_existing(current_date, existing_dates) == current_date \notin existing_dates

\* while current_date <= min(up_to_date, end_date): ... (lines 372-401);
\* the value is the list `generated`, ids assigned in insertion order
RECURSIVE generate_loop(_, _, _, _, _, _, _)
generate_loop(current_date, limit, payment, existing_dates, ovs, first_id, generated) ==
    IF ~(current_date <= limit) THEN generated
    ELSE
    LET r == resolve_overrides(1, ovs, current_date, payment.amount)
        create == not_in_existing(current_date, existing_dates) /\ ~r.should_skip
        occurrence == [id |-> first_id + Len(generated),
                       payment_id |-> payment.id,
                       scheduled_date |-> current_date,
                       due_date |-> current_date,
                       amount |-> r.amount,
                       status |-> "scheduled"]
    IN  generate_loop(calculate_next_due_date(current_date, payment.frequency),
                      limit, payment, existing_dates, ovs, first_id,
                      IF create THEN Append(generated, occurrence) ELSE generated)

SeqToSet(s) == {s[i] : i \in 1..Len(s)}

generate_with_overrides(payment_id, user_id, up_to_date_arg, ovs) ==
    LET rows == {p \in payments : p.id = payment_id /\ p.user_id = user_id
                                  /\ p.payment_type = "recurring"}
    IN  IF rows = {} THEN <<>>
        ELSE
        LET payment == CHOOSE p \in rows : TRUE
            up_to_date == IF up_to_date_arg = None THEN AddDays(Today, 365) ELSE up_to_date_arg
            existing_dates == {o.scheduled_date : o \in {x \in occurrences : x.payment_id = payment_id}}
            end_date == IF payment.end_date # None THEN payment.end_date ELSE up_to_date
        IN  IF ~payment.is_active THEN <<>>
            ELSE generate_loop(payment.start_date, Min(up_to_date, end_date), payment,
                               existing_dates, ovs, next_id.occurrence, <<>>)

\* overrides = query(RecurringPaymentOverride).filter(payment_id, is_active).all()
generate_result(payment_id, user_id, up_to_date_arg) ==
    generate_with_overrides(payment_id, user_id, up_to_date_arg,
                            active_overrides(payment_id))

replace_by_generated(rows, generated) ==
    {o \in rows : \A i \in 1..Len(generated) : generated[i].payment_id # o.payment_id}
        \cup SeqToSet(generated)

\* db.add(occurrence) for each generated occurrence, then db.commit()
add_generated(rows, generated) == rows \cup SeqToSet(generated)

generate_recurring_occurrences(payment_id, user_id, up_to_date) ==
    LET generated == generate_result(payment_id, user_id, up_to_date)
    IN  /\ occurrences' = add_generated(occurrences, generated)
        /\ next_id' = [next_id EXCEPT !.occurrence = @ + Len(generated)]
        /\ last' = [op |-> "generate_recurring_occurrences", payment_id |-> payment_id,
                    user_id |-> user_id, up_to_date |-> up_to_date, result |-> generated,
                    repeated |-> (/\ last.op = "generate_recurring_occurrences"
                                  /\ last.payment_id = payment_id
                                  /\ last.user_id = user_id
                                  /\ last.up_to_date = up_to_date)]
        /\ UNCHANGED <<cards, bank_accounts, payments, overrides>>

NewPayment(user_id, payment_type, amount, from_type, from_id, to_type, to_id, due_date, frequency, start_date, end_date, next_due_date, notes) ==
    [id |-> next_id.payment, user_id |-> user_id, payment_type |-> payment_type,
     description |-> "user", amount |-> amount, currency |-> "USD", category |-> NoneStr,
     from_account_type |-> from_type, from_account_id |-> from_id,
     to_account_type |-> to_type, to_account_id |-> to_id,
     due_date |-> due_date, frequency |-> frequency, start_date |-> start_date,
     end_date |-> end_date, next_due_date |-> next_due_date,
     status |-> "pending", notes |-> notes, is_active |-> TRUE]

create_one_time_payment(user_id, amount, from_type, from_id, to_type, to_id, due_date, notes) ==
    LET db_payment == NewPayment(user_id, "one_time", amount, from_type, from_id, to_type,
                                 to_id, due_date, NoneStr, None, None, None, notes)
        occurrence == [id |-> next_id.occurrence, payment_id |-> db_payment.id,
                       scheduled_date |-> due_date, due_date |-> due_date,
                       amount |-> amount, status |-> "scheduled"]
    IN  /\ payments' = payments \cup {db_payment}
        /\ occurrences' = IF due_date # None THEN occurrences \cup {occurrence} ELSE occurrences
        /\ next_id' = [next_id EXCEPT !.payment = @ + 1,
                                      !.occurrence = IF due_date # None THEN @ + 1 ELSE @]
        /\ last' = [op |-> "create_one_time_payment", result |-> db_payment.id]
        /\ UNCHANGED <<cards, bank_accounts, overrides>>

create_recurring_payment(user_id, amount, from_type, from_id, to_type, to_id, frequency, start_date, end_date) ==
    LET next_due == calculate_next_due_date(start_date, frequency)
        db_payment == NewPayment(user_id, "recurring", amount, from_type, from_id, to_type,
                                 to_id, None, frequency, start_date, end_date, next_due, NoneStr)
        occurrence == [id |-> next_id.occurrence, payment_id |-> db_payment.id,
                       scheduled_date |-> start_date, due_date |-> start_date,
                       amount |-> amount, status |-> "scheduled"]
    IN  /\ payments' = payments \cup {db_payment}
        /\ occurrences' = occurrences \cup {occurrence}
        /\ next_id' = [next_id EXCEPT !.payment = @ + 1, !.occurrence = @ + 1]
        /\ last' = [op |-> "create_recurring_payment", result |-> db_payment.id]
        /\ UNCHANGED <<cards, bank_accounts, overrides>>

create_payment_occurrence(payment_id, user_id, scheduled_date, due_date, amount) ==
    LET rows == {p \in payments : p.id = payment_id /\ p.user_id = user_id}
        occurrence == [id |-> next_id.occurrence, payment_id |-> payment_id,
                       scheduled_date |-> scheduled_date, due_date |-> due_date,
                       amount |-> amount, status |-> "scheduled"]
    IN  IF rows = {}
        THEN /\ last' = [op |-> "create_payment_occurrence", result |-> None]
             /\ UNCHANGED <<cards, bank_accounts, payments, occurrences, overrides, next_id>>
        ELSE /\ occurrences' = occurrences \cup {occurrence}
             /\ next_id' = [next_id EXCEPT !.occurrence = @ + 1]
             /\ last' = [op |-> "create_payment_occurrence", result |-> occurrence.id]
             /\ UNCHANGED <<cards, bank_accounts, payments, overrides>>

\* update_data = model_dump(exclude_unset=True): None stands for an unset field
update_payment_occurrence(occurrence_id, user_id, scheduled_date, amount, status) ==
    LET rows == {o \in occurrences : o.id = occurrence_id
                    /\ \E p \in payments : p.id = o.payment_id /\ p.user_id = user_id}
    IN  IF rows = {}
        THEN /\ last' = [op |-> "update_payment_occurrence", result |-> None]
             /\ UNCHANGED <<cards, bank_accounts, payments, occurrences, overrides, next_id>>
        ELSE LET occurrence == CHOOSE o \in rows : TRUE
                 updated == [occurrence EXCEPT
                     !.scheduled_date = IF scheduled_date # None THEN scheduled_date ELSE @,
                     !.amount = IF amount # None THEN amount ELSE @,
                     !.status = IF status # NoneStr THEN status ELSE @]
             IN  /\ occurrences' = (occurrences \ {occurrence}) \cup {updated}
                 /\ last' = [op |-> "update_payment_occurrence", result |-> occurrence_id]
                 /\ UNCHANGED <<cards, bank_accounts, payments, overrides, next_id>>

create_recurring_override(payment_id, user_id, override_type, target_date, effective_date, end_date, new_amount) ==
    LET rows == {p \in payments : p.id = payment_id /\ p.user_id = user_id
                                  /\ p.payment_type = "recurring"}
        override == [id |-> next_id.override, payment_id |-> payment_id,
                     override_type |-> override_type, target_date |-> target_date,
                     effective_date |-> effective_date, end_date |-> end_date,
                     occurrence_count |-> None, new_amount |-> new_amount,
                     new_due_date |-> None, is_active |-> TRUE]
    IN  IF rows = {}
        THEN /\ last' = [op |-> "create_recurring_override", result |-> None]
             /\ UNCHANGED <<cards, bank_accounts, payments, occurrences, overrides, next_id>>
        ELSE /\ overrides' = Append(overrides, override)
             /\ next_id' = [next_id EXCEPT !.override = @ + 1]
             /\ last' = [op |-> "create_recurring_override", result |-> override.id]
             /\ UNCHANGED <<cards, bank_accounts, payments, occurrences>>

\* RecurringPaymentOverride(payment_id=payment_id, **override_data.model_dump())
create_recurring_override_of_data(payment_id, user_id, override_data) ==
    LET rows == {p \in payments : p.id = payment_id /\ p.user_id = user_id
                                  /\ p.payment_type = "recurring"}
        override == [id |-> next_id.override, payment_id |-> payment_id,
                     override_type |-> override_data.override_type,
                     target_date |-> override_data.target_date,
                     effective_date |-> override_data.effective_date,
                     end_date |-> override_data.end_date,
                     occurrence_count |-> override_data.occurrence_count,
                     new_amount |-> override_data.new_amount,
                     new_due_date |-> override_data.new_due_date, is_active |-> TRUE]
    IN  IF rows = {}
        THEN /\ last' = [op |-> "create_recurring_override", result |-> None]
             /\ UNCHANGED <<cards, bank_accounts, payments, occurrences, overrides, next_id>>
        ELSE /\ overrides' = Append(overrides, override)
             /\ next_id' = [next_id EXCEPT !.override = @ + 1]
             /\ last' = [op |-> "create_recurring_override", result |-> override.id]
             /\ UNCHANGED <<cards, bank_accounts, payments, occurrences>>

\* update_data = model_dump(exclude_unset=True): a record of the fields set
update_data_with_next_due(db_payment, update_data) ==
    IF /\ db_payment.payment_type = "recurring"
       /\ ("frequency" \in DOMAIN update_data \/ "start_date" \in DOMAIN update_data)
    THEN LET start == IF "start_date" \in DOMAIN update_data
                      THEN update_data.start_date ELSE db_payment.start_date
             freq == IF "frequency" \in DOMAIN update_data
                     THEN update_data.frequency ELSE db_payment.frequency
         IN  IF start # None /\ freq # NoneStr
             THEN [f \in DOMAIN update_data \cup {"next_due_date"} |->
                      IF f = "next_due_date" THEN calculate_next_due_date(start, freq)
                      ELSE update_data[f]]
             ELSE update_data
    ELSE update_data

\* for field, value in update_data.items(): setattr(db_payment, field, value)
set_fields(row, update_data) ==
    [f \in DOMAIN row |-> IF f \in DOMAIN update_data THEN update_data[f] ELSE row[f]]

update_payment(payment_id, user_id, update_data) ==
    LET rows == {p \in payments : p.id = payment_id /\ p.user_id = user_id}
    IN  IF rows = {}
        THEN /\ last' = [op |-> "update_payment", result |-> None]
             /\ UNCHANGED <<cards, bank_accounts, payments, occurrences, overrides, next_id>>
        ELSE /\ payments' = (payments \ rows)
                    \cup {set_fields(p, update_data_with_next_due(p, update_data)) : p \in rows}
             /\ last' = [op |-> "update_payment", result |-> payment_id]
             /\ UNCHANGED <<cards, bank_accounts, occurrences, overrides, next_id>>

(***************************************************************************)
(* CreditCardService: planned payments                                     *)
(***************************************************************************)
PLANNED_PAYMENT_MONTHS_AHEAD == 12

planned_note(card_id) == "planned_credit_card_payment:card_id=" \o ToString(card_id)

first_account_id(user_id, preferred_account_id) == 1

resolve_default_payment_account_id(user_id, preferred_account_id) ==
    LET active == {b \in bank_accounts : b.user_id = user_id /\ b.is_active}
        preferred == {b \in active : b.id = preferred_account_id}
        checking == {b \in active : b.account_type = "checking"}
        FirstId(rows) == CHOOSE i \in {b.id : b \in rows} : \A b \in rows : i <= b.id
    IN  IF preferred_account_id # None /\ preferred # {} THEN preferred_account_id
        ELSE IF checking # {} THEN FirstId(checking)
        ELSE IF active # {} THEN FirstId(active)
        ELSE None

\* if desired_amount < 0: desired_amount = 0
desired_amount_of(statement_balance) ==
    IF statement_balance < 0 THEN 0 ELSE statement_balance

\* lines 404-420: one plan entry per month of the horizon
\* reference = date(year, month, min(15, monthrange(year, month)[1]))
plan_reference(ym) == date(ym[1], ym[2], Min(15, DaysInMonth(ym[1], ym[2])))

plan_entry(card, reference) ==
    [due_date |-> cycle_of_card(card, reference).due_date,
     amount |-> desired_amount_of(
                    summary_of_card(card, card.user_id, reference).statement_balance)]

plan_entries(card) ==
    [k \in 1..PLANNED_PAYMENT_MONTHS_AHEAD |->
        plan_entry(card, plan_reference(shift_month(YearOf(Today), MonthOf(Today), k - 1)))]

\* desired_by_due: a later entry of the same due date replaces an earlier one
desired_by_due(plan, due_date) ==
    LET k == CHOOSE i \in 1..Len(plan) :
                 /\ plan[i].due_date = due_date
                 /\ \A j \in 1..Len(plan) : plan[j].due_date = due_date => j <= i
    IN  plan[k].amount

no_existing_payments(card, due_dates) == {}

\* lines 428-435
existing_payments(card, due_dates) ==
    {p \in payments :
        /\ p.user_id = card.user_id
        /\ p.payment_type = "one_time"
        /\ p.to_account_type = "credit_card"
        /\ p.to_account_id = card.id
        /\ p.due_date \in due_dates
        /\ p.status \notin Excluded}

\* db.delete(payment): occurrences go with it (cascade="all, delete-orphan")
delete_payment_row(st, payment_id) ==
    [st EXCEPT !.payments = {p \in @ : p.id # payment_id},
               !.occurrences = {o \in @ : o.payment_id # payment_id}]

planned_fields_keeping_status(payment, card, desired_amount) ==
    [payment EXCEPT !.description = "Planned payment - " \o card.name,
                    !.amount = desired_amount,
                    !.from_account_type = "bank_account",
                    !.from_account_id = card.default_payment_account_id,
                    !.notes = planned_note(card.id)]

planned_fields(payment, card, desired_amount) ==
    [payment EXCEPT !.description = "Planned payment - " \o card.name,
                    !.amount = desired_amount,
                    !.currency = card.currency,
                    !.category = "transfer",
                    !.from_account_type = "bank_account",
                    !.from_account_id = card.default_payment_account_id,
                    !.to_account_type = "credit_card",
                    !.to_account_id = card.id,
                    !.status = "pending",
                    !.notes = planned_note(card.id)]

\* for due_date in due_dates: ... (lines 445-487), from the i-th entry on;
\* st holds the session's payments, occurrences and the next payment id
RECURSIVE sync_loop(_, _, _, _, _, _)
sync_loop(i, plan, card, planned, blocked_due_dates, st) ==
    IF i > Len(plan) THEN st
    ELSE
    LET due_date == plan[i].due_date
        at_due == {p \in planned : p.due_date = due_date}
        \* planned_by_due[due_date]: the last placeholder row of that date
        row == CHOOSE p \in at_due : \A q \in at_due : q.id <= p.id
        desired_amount == desired_by_due(plan, due_date)
        current == CHOOSE p \in st.payments : p.id = row.id
        next_st ==
            IF due_date \in blocked_due_dates
            THEN IF at_due # {} THEN delete_payment_row(st, row.id) ELSE st
            ELSE IF desired_amount <= 0
            THEN IF at_due # {} THEN delete_payment_row(st, row.id) ELSE st
            ELSE IF at_due # {}
            THEN [st EXCEPT !.payments =
                     (@ \ {current}) \cup {planned_fields(current, card, desired_amount)}]
            ELSE [st EXCEPT
                    !.payments = @ \cup
                        {planned_fields(
                            [id |-> st.next_payment, user_id |-> card.user_id,
                             payment_type |-> "one_time", description |-> "",
                             amount |-> desired_amount, currency |-> card.currency,
                             category |-> "transfer",
                             from_account_type |-> "bank_account",
                             from_account_id |-> card.default_payment_account_id,
                             to_account_type |-> "credit_card", to_account_id |-> card.id,
                             due_date |-> due_date, frequency |-> NoneStr,
                             start_date |-> None, end_date |-> None,
                             next_due_date |-> None, status |-> "pending",
                             notes |-> planned_note(card.id), is_active |-> TRUE],
                            card, desired_amount)},
                    !.next_payment = @ + 1]
    IN  sync_loop(i + 1, plan, card, planned, blocked_due_dates, next_st)

any_row_is_planned(payment, card) == TRUE

\* if payment.notes == CreditCardService._planned_note(card.id)
is_planned(payment, card) == payment.notes = planned_note(card.id)

\* else: blocked_due_dates.add(payment.due_date)
blocked_due_dates_of(existing, planned) == {p.due_date : p \in existing \ planned}

\* lines 437-487: placeholders and blocked due dates among the existing rows
sync_of_planned(card, plan, existing, planned, st0) ==
    sync_loop(1, plan, card, planned, blocked_due_dates_of(existing, planned), st0)

sync_of_existing(card, plan, existing, st0) ==
    sync_of_planned(card, plan, existing, {p \in existing : is_planned(p, card)}, st0)

\* lines 422-487
sync_of_plan(card, plan, st0) ==
    sync_of_existing(card, plan,
                     existing_payments(card, {plan[i].due_date : i \in 1..Len(plan)}), st0)

\* _sync_planned_payments(db, card): the session's rows after it
sync_planned_payments_of_card(card) ==
    LET st0 == [payments |-> payments, occurrences |-> occurrences,
                next_payment |-> next_id.payment]
    IN  IF card.default_payment_account_id = None THEN st0
        ELSE
        sync_of_plan(card, plan_entries(card), st0)

sync_planned_payments(card_id, user_id) ==
    LET got == get_card(card_id, user_id)
    IN  IF ~got.found
        THEN /\ last' = [op |-> "sync_planned_payments", card_id |-> card_id,
                         user_id |-> user_id, result |-> FALSE]
             /\ UNCHANGED <<cards, bank_accounts, payments, occurrences, overrides, next_id>>
        ELSE
        LET card == IF got.card.default_payment_account_id = None
                    THEN [got.card EXCEPT !.default_payment_account_id =
                             resolve_default_payment_account_id(user_id, None)]
                    ELSE got.card
            st == sync_planned_payments_of_card(card)
        IN  /\ cards' = (cards \ {got.card}) \cup {card}
            /\ payments' = st.payments
            /\ occurrences' = st.occurrences
            /\ next_id' = [next_id EXCEPT !.payment = st.next_payment]
            /\ last' = [op |-> "sync_planned_payments", card_id |-> card_id,
                        user_id |-> user_id, result |-> TRUE]
            /\ UNCHANGED <<bank_accounts, overrides>>

(***************************************************************************)
(* CreditCardService.update_card                                           *)
(***************************************************************************)
\* update_data = card_data.model_dump(exclude_unset=True), the default payment
\* account resolved when it is set; setattr for each field; the default account
\* resolved again when the card has none
updated_card(db_card, user_id, update_data) ==
    LET data == IF "default_payment_account_id" \in DOMAIN update_data
                THEN [update_data EXCEPT !.default_payment_account_id =
                         resolve_default_payment_account_id(user_id, @)]
                ELSE update_data
        row == set_fields(db_card, data)
    IN  IF row.default_payment_account_id = None
        THEN [row EXCEPT !.default_payment_account_id =
                 resolve_default_payment_account_id(user_id, None)]
        ELSE row

\* the card row with its new fields, then _sync_planned_payments(db, db_card)
update_card_to(old_card, card, st) ==
    /\ cards' = (cards \ {old_card}) \cup {card}
    /\ payments' = st.payments
    /\ occurrences' = st.occurrences
    /\ next_id' = [next_id EXCEPT !.payment = st.next_payment]
    /\ last' = [op |-> "update_card", card_id |-> card.id, user_id |-> card.user_id,
                result |-> card.id]
    /\ UNCHANGED <<bank_accounts, overrides>>

update_card(card_id, user_id, update_data) ==
    LET got == get_card(card_id, user_id)
    IN  IF ~got.found
        THEN /\ last' = [op |-> "update_card", card_id |-> card_id, user_id |-> user_id,
                         result |-> None]
             /\ UNCHANGED <<cards, bank_accounts, payments, occurrences, overrides, next_id>>
        ELSE update_card_to(got.card, updated_card(got.card, user_id, update_data),
                            sync_planned_payments_of_card(
                                updated_card(got.card, user_id, update_data)))

(***************************************************************************)
(* CreditCardService: invoice history                                      *)
(***************************************************************************)
MonthAbbr == <<"Jan", "Feb", "Mar", "Apr", "May", "Jun",
               "Jul", "Aug", "Sep", "Oct", "Nov", "Dec">>

\* ref.strftime("%b %Y")
period_label_of(ref) == MonthAbbr[MonthOf(ref)] \o " " \o ToString(YearOf(ref))

\* ref = today - timedelta(days=15 * i); ref = ref.replace(day=15)
history_ref_in_month(y, m) == date(y, m, 15)

history_ref(i) ==
    history_ref_in_month(YearOf(AddDays(Today, -(15 * i))), MonthOf(AddDays(Today, -(15 * i))))

history_entry(ref, cycle, summary) ==
    [period_label |-> period_label_of(ref),
     cycle_start_date |-> cycle.cycle_start_date,
     cycle_end_date |-> cycle.cycle_end_date,
     charges_total |-> summary.charges_total,
     statement_balance |-> summary.statement_balance]

RECURSIVE history_loop(_, _, _, _, _, _)
RECURSIVE history_round(_, _, _, _, _, _, _, _)
\* one round of the loop: skip a cycle already seen, else append its entry
history_round(i, months, card, user_id, seen_cycles, entries, ref, cycle) ==
    IF <<cycle.cycle_start_date, cycle.cycle_end_date>> \in seen_cycles
    THEN history_loop(i + 1, months, card, user_id, seen_cycles, entries)
    ELSE history_loop(i + 1, months, card, user_id,
                      seen_cycles \cup {<<cycle.cycle_start_date, cycle.cycle_end_date>>},
                      Append(entries,
                             history_entry(ref, cycle, summary_of_card(card, user_id, ref))))

\* for i in range(months * 2): ... if len(entries) >= months: break
history_loop(i, months, card, user_id, seen_cycles, entries) ==
    IF i >= months * 2 \/ (entries # <<>> /\ Len(entries) >= months) THEN entries
    ELSE history_round(i, months, card, user_id, seen_cycles, entries,
                       history_ref(i), cycle_of_card(card, history_ref(i)))

\* entries.reverse()
Reverse(seq) == [k \in 1..Len(seq) |-> seq[Len(seq) + 1 - k]]

get_invoice_history(card_id, user_id, months) ==
    LET got == get_card(card_id, user_id)
    IN  IF ~got.found THEN NotFound
        ELSE [found |-> TRUE,
              entries |-> Reverse(history_loop(0, months, got.card, user_id, {}, <<>>))]

call_get_invoice_history(card_id, user_id, months) ==
    /\ last' = [op |-> "get_invoice_history", card_id |-> card_id, user_id |-> user_id,
                months |-> months,
                result |-> get_invoice_history(card_id, user_id, months)]
    /\ UNCHANGED <<cards, bank_accounts, payments, occurrences, overrides, next_id>>

\* a read that stores the balance it computed on the card
call_get_statement_summary_storing_balance(card_id, user_id, reference_date) ==
    LET result == get_statement_summary(card_id, user_id, reference_date)
    IN  /\ result.found
        /\ last' = [op |-> "get_statement_summary", card_id |-> card_id,
                    user_id |-> user_id, reference_date |-> reference_date,
                    result |-> result, repeated |-> FALSE]
        /\ cards' = {IF c.id = card_id
                     THEN [c EXCEPT !.current_balance = result.statement_balance]
                     ELSE c : c \in cards}
        /\ UNCHANGED <<bank_accounts, payments, occurrences, overrides, next_id>>

\* a caller's get_statement_summary(db, card_id, user_id, reference_date): the
\* function issues queries only
call_get_statement_summary(card_id, user_id, reference_date) ==
    /\ last' = [op |-> "get_statement_summary", card_id |-> card_id, user_id |-> user_id,
                reference_date |-> reference_date,
                result |-> get_statement_summary(card_id, user_id, reference_date),
                repeated |-> (/\ last.op = "get_statement_summary"
                              /\ last.card_id = card_id
                              /\ last.user_id = user_id
                              /\ last.reference_date = reference_date)]
    /\ UNCHANGED <<cards, bank_accounts, payments, occurrences, overrides, next_id>>

\* a caller's get_invoice_cycle(db, card_id, user_id, reference_date)
call_get_invoice_cycle(card_id, user_id, reference_date) ==
    /\ last' = [op |-> "get_invoice_cycle", card_id |-> card_id, user_id |-> user_id,
                reference_date |-> reference_date,
                result |-> get_invoice_cycle(card_id, user_id, reference_date),
                repeated |-> (/\ last.op = "get_invoice_cycle"
                              /\ last.card_id = card_id
                              /\ last.user_id = user_id
                              /\ last.reference_date = reference_date)]
    /\ UNCHANGED <<cards, bank_accounts, payments, occurrences, overrides, next_id>>

(***************************************************************************)
(* One invocation of generation or sync, statement by statement: the       *)
(* variables hold the committed rows, last.views the rows as the session   *)
(* sees them after each of its writes, last.issued the writes issued       *)
(***************************************************************************)
Store == [cards |-> cards, payments |-> payments, occurrences |-> occurrences,
          next_id |-> next_id]

\* the session after each db.add(occurrence) of the generation loop
generate_views(payment_id, user_id, up_to_date) ==
    LET generated == generate_result(payment_id, user_id, up_to_date)
    IN  [k \in 1..Len(generated) |->
            [Store EXCEPT
                !.occurrences = add_generated(occurrences, SubSeq(generated, 1, k)),
                !.next_id = [next_id EXCEPT !.occurrence = @ + k]]]

\* the card as sync_planned_payments hands it to _sync_planned_payments
card_with_default_account(card, user_id) ==
    IF card.default_payment_account_id = None
    THEN [card EXCEPT !.default_payment_account_id =
             resolve_default_payment_account_id(user_id, None)]
    ELSE card

sync_view(db_card, card, st) ==
    [cards |-> (cards \ {db_card}) \cup {card}, payments |-> st.payments,
     occurrences |-> st.occurrences,
     next_id |-> [next_id EXCEPT !.payment = st.next_payment]]

\* the session after each round of the reconcile loop (lines 445-487)
sync_views_of_plan(db_card, card, plan, existing, st0) ==
    [k \in 1..Len(plan) |->
        sync_view(db_card, card, sync_of_existing(card, SubSeq(plan, 1, k), existing, st0))]

sync_views_of_card(db_card, card, plan) ==
    IF card.default_payment_account_id = None
    THEN <<sync_view(db_card, card, [payments |-> payments, occurrences |-> occurrences,
                                     next_payment |-> next_id.payment])>>
    ELSE sync_views_of_plan(db_card, card, plan,
             existing_payments(card, {plan[i].due_date : i \in 1..Len(plan)}),
             [payments |-> payments, occurrences |-> occurrences,
              next_payment |-> next_id.payment])

sync_views(card_id, user_id) ==
    LET got == get_card(card_id, user_id)
    IN  IF ~got.found THEN <<>>
        ELSE sync_views_of_card(got.card, card_with_default_account(got.card, user_id),
                                plan_entries(card_with_default_account(got.card, user_id)))

InvocationOps == {"generate_recurring_occurrences", "sync_planned_payments"}

Running == last.op \in InvocationOps /\ last.phase = "running"

\* the invocation has read its rows and starts to write
begin_invocation(op, views) ==
    /\ ~Running
    /\ last' = [op |-> op, phase |-> "running", before |-> Store, views |-> views,
                issued |-> 0]
    /\ UNCHANGED <<cards, bank_accounts, payments, occurrences, overrides, next_id>>

\* a session that commits each write as it is issued
issue_and_commit ==
    /\ Running
    /\ last.issued < Len(last.views)
    /\ last' = [last EXCEPT !.issued = @ + 1]
    /\ cards' = last.views[last.issued + 1].cards
    /\ payments' = last.views[last.issued + 1].payments
    /\ occurrences' = last.views[last.issued + 1].occurrences
    /\ next_id' = last.views[last.issued + 1].next_id
    /\ UNCHANGED <<bank_accounts, overrides>>

\* db.add / db.delete / attribute assignment: the write stays in the session
issue_write ==
    /\ Running
    /\ last.issued < Len(last.views)
    /\ last' = [last EXCEPT !.issued = @ + 1]
    /\ UNCHANGED <<cards, bank_accounts, payments, occurrences, overrides, next_id>>

\* db.commit() after the last write: the session's rows become the committed rows
commit_invocation ==
    /\ Running
    /\ last.issued = Len(last.views)
    /\ last' = [last EXCEPT !.phase = "committed"]
    /\ IF last.views = <<>>
       THEN UNCHANGED <<cards, payments, occurrences, next_id>>
       ELSE /\ cards' = last.views[Len(last.views)].cards
            /\ payments' = last.views[Len(last.views)].payments
            /\ occurrences' = last.views[Len(last.views)].occurrences
            /\ next_id' = last.views[Len(last.views)].next_id
    /\ UNCHANGED <<bank_accounts, overrides>>

\* a failure before the commit: the session is closed and its writes are
\* rolled back
fail_invocation ==
    /\ Running
    /\ last' = [last EXCEPT !.phase = "failed"]
    /\ UNCHANGED <<cards, bank_accounts, payments, occurrences, overrides, next_id>>

(***************************************************************************)
(* PaymentService.generate_recurring_occurrences, one iteration at a time  *)
(***************************************************************************)
Looping == last.op = "generate_recurring_occurrences" /\ last.phase = "looping"

\* lines 342-370: the queries, and the loop variables before the first test
begin_generate(payment_id, user_id, up_to_date_arg) ==
    LET rows == {p \in payments : p.id = payment_id /\ p.user_id = user_id
                                  /\ p.payment_type = "recurring"}
        payment == CHOOSE p \in rows : TRUE
        up_to_date == IF up_to_date_arg = None THEN AddDays(Today, 365) ELSE up_to_date_arg
    IN  /\ ~Looping
        /\ rows # {}
        /\ payment.is_active
        /\ last' = [op |-> "generate_recurring_occurrences", phase |-> "looping",
                    payment_id |-> payment_id, user_id |-> user_id,
                    up_to_date |-> up_to_date, payment |-> payment,
                    limit |-> Min(up_to_date, IF payment.end_date # None
                                              THEN payment.end_date ELSE up_to_date),
                    current_date |-> payment.start_date,
                    existing_dates |-> {o.scheduled_date :
                                           o \in {x \in occurrences : x.payment_id = payment_id}},
                    ovs |-> active_overrides(payment_id),
                    first_id |-> next_id.occurrence,
                    generated |-> <<>>]
        /\ UNCHANGED <<cards, bank_accounts, payments, occurrences, overrides, next_id>>

\* lines 373-398: the body of the loop up to generated.append
generated_after(loop, r) ==
    IF not_in_existing(loop.current_date, loop.existing_dates) /\ ~r.should_skip
    THEN Append(loop.generated,
                [id |-> loop.first_id + Len(loop.generated),
                 payment_id |-> loop.payment_id,
                 scheduled_date |-> loop.current_date,
                 due_date |-> loop.current_date,
                 amount |-> r.amount,
                 status |-> "scheduled"])
    ELSE loop.generated

\* one iteration: while current_date <= min(up_to_date, end_date), the body, then
\* current_date = _calculate_next_due_date(current_date, payment.frequency)
generate_iteration ==
    /\ Looping
    /\ last.current_date <= last.limit
    /\ last' = [last EXCEPT
                  !.generated = generated_after(last,
                                    resolve_overrides(1, last.ovs, last.current_date,
                                                      last.payment.amount)),
                  !.current_date = calculate_next_due_date(@, last.payment.frequency)]
    /\ UNCHANGED <<cards, bank_accounts, payments, occurrences, overrides, next_id>>

\* the loop test fails: db.commit(); return generated
generate_return ==
    /\ Looping
    /\ ~(last.current_date <= last.limit)
    /\ occurrences' = add_generated(occurrences, last.generated)
    /\ next_id' = [next_id EXCEPT !.occurrence = @ + Len(last.generated)]
    /\ last' = [last EXCEPT !.phase = "returned"]
    /\ UNCHANGED <<cards, bank_accounts, payments, overrides>>

(***************************************************************************)
(* The empty store                                                         *)
(***************************************************************************)
Users == {1, 2}

\* base amount of the payments created, in cents
BaseAmounts == {10000}

InitStore ==
    /\ cards = {}
    /\ bank_accounts = {}
    /\ payments = {}
    /\ occurrences = {}
    /\ overrides = <<>>
    /\ next_id = [payment |-> 1, occurrence |-> 1, override |-> 1]
    /\ last = [op |-> "none"]

(***************************************************************************)
(* SpecGen: one recurring payment, its overrides and the generator         *)
(***************************************************************************)
MaxOverrides == 2

\* (frequency, start_date, end_date) of the recurring payment created
Schedules ==
    {<<"daily", ToOrdinal(2026, 4, 24), None>>,
     <<"weekly", ToOrdinal(2026, 4, 2), None>>,
     <<"monthly", ToOrdinal(2026, 1, 31), None>>,
     <<"monthly", ToOrdinal(2026, 1, 31), ToOrdinal(2026, 3, 31)>>,
     <<"quarterly", ToOrdinal(2025, 11, 30), None>>,
     <<"yearly", ToOrdinal(2024, 2, 29), None>>}

UpToDates == {None, ToOrdinal(2026, 2, 28), ToOrdinal(2026, 4, 30)}
OverrideTypes == {"skip", "change_amount"}
EffectiveDates == {ToOrdinal(2026, 2, 1), ToOrdinal(2026, 3, 1)}
NewAmounts == {5000}

CreateRecurring ==
    /\ payments = {}
    /\ \E schedule \in Schedules, amount \in BaseAmounts :
          create_recurring_payment(1, amount, "bank_account", 1, NoneStr, None,
                                   schedule[1], schedule[2], schedule[3])

Generate ==
    \E user_id \in Users, up_to_date \in UpToDates :
        generate_recurring_occurrences(1, user_id, up_to_date)

CreateOverride ==
    /\ Len(overrides) < MaxOverrides
    /\ \E override_type \in OverrideTypes, effective_date \in EffectiveDates,
          new_amount \in NewAmounts :
          create_recurring_override(1, 1, override_type, None, effective_date, None,
                                    IF override_type = "change_amount"
                                    THEN new_amount ELSE None)

NextGen ==
    \/ CreateRecurring
    \/ Generate
    \/ CreateOverride

SpecGen == InitStore /\ [][NextGen]_vars

(***************************************************************************)
(* SpecOcc: payments and their occurrences, created by hand and generated  *)
(***************************************************************************)
MaxManualOccurrenceId == 2

ManualDates == {ToOrdinal(2026, 1, 31), ToOrdinal(2026, 2, 1)}

OccSchedules ==
    {<<"monthly", ToOrdinal(2026, 1, 31), None>>, <<"weekly", ToOrdinal(2026, 1, 31), None>>}

OccUpToDates == {ToOrdinal(2026, 2, 14), ToOrdinal(2026, 2, 28)}

OccCreateRecurring ==
    /\ ~\E p \in payments : p.payment_type = "recurring"
    /\ \E schedule \in OccSchedules, amount \in BaseAmounts :
          create_recurring_payment(1, amount, "bank_account", 1, NoneStr, None,
                                   schedule[1], schedule[2], schedule[3])

OccCreateOneTime ==
    /\ ~\E p \in payments : p.payment_type = "one_time"
    /\ \E due_date \in {None, ToOrdinal(2026, 1, 31)}, amount \in BaseAmounts :
          create_one_time_payment(1, amount, "bank_account", 1, NoneStr, None,
                                  due_date, NoneStr)

OccGenerate ==
    \E payment_id \in 1..2, up_to_date \in OccUpToDates :
        generate_recurring_occurrences(payment_id, 1, up_to_date)

OccCreateOccurrence ==
    /\ next_id.occurrence <= MaxManualOccurrenceId
    /\ \E payment_id \in 1..2, scheduled_date \in ManualDates, amount \in BaseAmounts :
          create_payment_occurrence(payment_id, 1, scheduled_date, scheduled_date, amount)

OccUpdateOccurrence ==
    \E occurrence_id \in 1..MaxManualOccurrenceId,
       scheduled_date \in {None, ToOrdinal(2026, 2, 1)},
       status \in {NoneStr, "cancelled"} :
        update_payment_occurrence(occurrence_id, 1, scheduled_date, None, status)

NextOcc ==
    \/ OccCreateRecurring
    \/ OccCreateOneTime
    \/ OccGenerate
    \/ OccCreateOccurrence
    \/ OccUpdateOccurrence

SpecOcc == InitStore /\ [][NextOcc]_vars

(***************************************************************************)
(* Spec: one card with its default bank account; the user's charges and    *)
(* payments on it, statements and planned-payment synchronisation          *)
(***************************************************************************)
MaxUserPayments == 2

CloseDays == {15, 31}

SyncDueDays == {10, 31}

CardDates == {ToOrdinal(2025, 2, 1), ToOrdinal(2025, 3, 1)}

\* amounts of the user's charges and of the user's payments to the card, in cents
ChargeAmounts == {12000}

PaymentAmounts == {7000}

StatementRefs == {ToOrdinal(2025, 2, 10), ToOrdinal(2025, 3, 10)}

Init ==
    /\ bank_accounts = {[id |-> 1, user_id |-> 1, is_active |-> TRUE,
                         account_type |-> "checking"]}
    /\ \E invoice_close_day \in CloseDays, payment_due_day \in SyncDueDays :
          cards = {NewCard(1, 1, invoice_close_day, payment_due_day, 1)}
    /\ payments = {}
    /\ occurrences = {}
    /\ overrides = <<>>
    /\ next_id = [payment |-> 1, occurrence |-> 1, override |-> 1]
    /\ last = [op |-> "none"]

UserPayments == {p \in payments : p.notes # planned_note(1)}

AddCharge ==
    /\ Cardinality(UserPayments) < MaxUserPayments
    /\ \E amount \in ChargeAmounts, due_date \in CardDates :
          create_one_time_payment(1, amount, "credit_card", 1, NoneStr, None,
                                  due_date, NoneStr)

AddCardPayment ==
    /\ Cardinality(UserPayments) < MaxUserPayments
    /\ \E amount \in PaymentAmounts, due_date \in CardDates :
          create_one_time_payment(1, amount, "bank_account", 1, "credit_card", 1,
                                  due_date, NoneStr)

Sync == \E user_id \in Users : sync_planned_payments(1, user_id)

Statement ==
    \E user_id \in Users, reference_date \in StatementRefs :
        /\ last' = [op |-> "get_statement_summary", card_id |-> 1, user_id |-> user_id,
                    reference_date |-> reference_date,
                    result |-> get_statement_summary(1, user_id, reference_date)]
        /\ UNCHANGED <<cards, bank_accounts, payments, occurrences, overrides, next_id>>

Next ==
    \/ AddCharge
    \/ AddCardPayment
    \/ Sync
    \/ Statement

Spec == Init /\ [][Next]_vars

(***************************************************************************)
(* SpecSync: two cards of user 1, user-entered payments of both users,     *)
(* cancelled payments, and the planned-payment sync of card 1              *)
(***************************************************************************)
MaxSyncPayments == 2

MaxCancelled == 1

\* card 1 closes on the 15th, its payment is due 10 days later: the cycle of
\* today ends 2025-02-15 and is due 2025-02-25
SyncChargeDates == {ToOrdinal(2025, 2, 1)}

SyncPaymentDates == {ToOrdinal(2025, 2, 25)}

\* <<user, card>> of a user-entered payment to a card
SyncPayees == {<<1, 1>>, <<1, 2>>, <<2, 1>>}

CheckingAccount(is_active) ==
    [id |-> 1, user_id |-> 1, is_active |-> is_active, account_type |-> "checking"]

InitSync ==
    /\ \E accounts \in {{}, {CheckingAccount(FALSE)}, {CheckingAccount(TRUE)}},
          default_payment_account_id \in {None, 1} :
          /\ (default_payment_account_id = 1 => accounts = {CheckingAccount(TRUE)})
          /\ bank_accounts = accounts
          /\ cards = {NewCard(1, 1, 15, 10, default_payment_account_id),
                      NewCard(2, 1, 15, 10, default_payment_account_id)}
    /\ payments = {}
    /\ occurrences = {}
    /\ overrides = <<>>
    /\ next_id = [payment |-> 1, occurrence |-> 1, override |-> 1]
    /\ last = [op |-> "none"]

SyncAddCharge ==
    /\ Cardinality(UserPayments) < MaxSyncPayments
    /\ \E amount \in ChargeAmounts, due_date \in SyncChargeDates :
          create_one_time_payment(1, amount, "credit_card", 1, NoneStr, None,
                                  due_date, NoneStr)

SyncAddPayment ==
    /\ Cardinality(UserPayments) < MaxSyncPayments
    /\ \E amount \in PaymentAmounts, due_date \in SyncPaymentDates, payee \in SyncPayees :
          create_one_time_payment(payee[1], amount, "bank_account", 1, "credit_card",
                                  payee[2], due_date, NoneStr)

SyncCancelPayment ==
    \E p \in payments, user_id \in Users :
        /\ Cardinality({q \in payments : q.status = "cancelled"}) < MaxCancelled
        /\ p.status = "pending"
        /\ update_payment(p.id, user_id, [status |-> "cancelled"])

SyncCard == \E user_id \in Users : sync_planned_payments(1, user_id)

NextSync ==
    \/ SyncAddCharge
    \/ SyncAddPayment
    \/ SyncCancelPayment
    \/ SyncCard

SpecSync == InitSync /\ [][NextSync]_vars

(***************************************************************************)
(* SpecStmt: payments from and to two cards, their occurrences, cancelled  *)
(* and failed rows, and the statement and cycle reads                      *)
(***************************************************************************)
MaxStmtPayments == 2

MaxStmtOccurrences == 2

\* <<from_account_type, from_account_id, to_account_type, to_account_id>>
StmtLegs ==
    {<<"credit_card", 1, NoneStr, None>>,
     <<"credit_card", 1, "credit_card", 1>>,
     <<"credit_card", 2, "credit_card", 1>>}

StmtDueDates == {ToOrdinal(2025, 2, 1)}

\* scheduled dates of occurrences added by hand, in the cycle of 2025-02-01
StmtOccurrenceDates == {ToOrdinal(2025, 2, 5)}

StmtOccurrenceAmounts == {3000}

StmtStatuses == {"cancelled", "failed"}

StmtRefs == {ToOrdinal(2025, 2, 10)}

InitStmt ==
    /\ cards = {NewCard(1, 1, 15, 10, None), NewCard(2, 1, 15, 10, None)}
    /\ bank_accounts = {}
    /\ payments = {}
    /\ occurrences = {}
    /\ overrides = <<>>
    /\ next_id = [payment |-> 1, occurrence |-> 1, override |-> 1]
    /\ last = [op |-> "none"]

StmtAddPayment ==
    /\ Cardinality(payments) < MaxStmtPayments
    /\ \E amount \in ChargeAmounts, leg \in StmtLegs, due_date \in StmtDueDates :
          create_one_time_payment(1, amount, leg[1], leg[2], leg[3], leg[4], due_date, NoneStr)

StmtAddOccurrence ==
    /\ Cardinality(occurrences) < MaxStmtOccurrences
    /\ \E payment_id \in 1..MaxStmtPayments, scheduled_date \in StmtOccurrenceDates,
          amount \in StmtOccurrenceAmounts :
          create_payment_occurrence(payment_id, 1, scheduled_date, scheduled_date, amount)

StmtUpdateOccurrence ==
    \E o \in occurrences, status \in StmtStatuses :
        /\ o.status = "scheduled"
        /\ update_payment_occurrence(o.id, 1, None, None, status)

StmtUpdatePayment ==
    \E p \in payments :
        /\ p.status = "pending"
        /\ update_payment(p.id, 1, [status |-> "cancelled"])

StmtStatement ==
    \E card_id \in 1..2, user_id \in Users, reference_date \in StmtRefs :
        call_get_statement_summary(card_id, user_id, reference_date)

StmtCycle ==
    \E card_id \in 1..2, user_id \in Users, reference_date \in StmtRefs :
        call_get_invoice_cycle(card_id, user_id, reference_date)

NextStmt ==
    \/ StmtAddPayment
    \/ StmtAddOccurrence
    \/ StmtUpdateOccurrence
    \/ StmtUpdatePayment
    \/ StmtStatement
    \/ StmtCycle

SpecStmt == InitStmt /\ [][NextStmt]_vars

(***************************************************************************)
(* SpecTxn: generation and sync, write by write, with failures             *)
(***************************************************************************)
MaxTxnCharges == 1

TxnChargeDates == {ToOrdinal(2025, 2, 1), ToOrdinal(2025, 3, 1)}

TxnUpToDates == {ToOrdinal(2026, 2, 28), ToOrdinal(2026, 4, 30)}

InitTxn ==
    /\ bank_accounts = {CheckingAccount(TRUE)}
    /\ \E default_payment_account_id \in {None, 1} :
          cards = {NewCard(1, 1, 15, 10, default_payment_account_id)}
    /\ payments = {}
    /\ occurrences = {}
    /\ overrides = <<>>
    /\ next_id = [payment |-> 1, occurrence |-> 1, override |-> 1]
    /\ last = [op |-> "none"]

TxnAddCharge ==
    /\ ~Running
    /\ Cardinality({p \in payments : p.from_account_type = "credit_card"}) < MaxTxnCharges
    /\ \E amount \in ChargeAmounts, due_date \in TxnChargeDates :
          create_one_time_payment(1, amount, "credit_card", 1, NoneStr, None,
                                  due_date, NoneStr)

TxnAddRecurring ==
    /\ ~Running
    /\ ~\E p \in payments : p.payment_type = "recurring"
    /\ \E amount \in BaseAmounts :
          create_recurring_payment(1, amount, "bank_account", 1, NoneStr, None,
                                   "monthly", ToOrdinal(2026, 1, 31), None)

TxnBeginGenerate ==
    \E p \in payments, up_to_date \in TxnUpToDates :
        /\ p.payment_type = "recurring"
        /\ begin_invocation("generate_recurring_occurrences",
                            generate_views(p.id, p.user_id, up_to_date))

TxnBeginSync == begin_invocation("sync_planned_payments", sync_views(1, 1))

TxnWrite == issue_write

TxnCommit == commit_invocation

TxnFail == fail_invocation

NextTxn ==
    \/ TxnAddCharge
    \/ TxnAddRecurring
    \/ TxnBeginGenerate
    \/ TxnBeginSync
    \/ TxnWrite
    \/ TxnCommit
    \/ TxnFail

SpecTxn == InitTxn /\ [][NextTxn]_vars

(***************************************************************************)
(* SpecLookup: the calls that take a payment id or a card id, with ids     *)
(* that exist, ids that do not, and the ids of another user's rows         *)
(***************************************************************************)
MaxLookupCharges == 1

LookupIds == {1, 2}

LookupMonths == {1, 3}

LookupUpToDates == {ToOrdinal(2026, 2, 28)}

LookupRefs == {ToOrdinal(2025, 2, 10)}

InitLookup ==
    /\ bank_accounts = {CheckingAccount(TRUE)}
    /\ cards = {NewCard(1, 1, 15, 10, 1)}
    /\ payments = {}
    /\ occurrences = {}
    /\ overrides = <<>>
    /\ next_id = [payment |-> 1, occurrence |-> 1, override |-> 1]
    /\ last = [op |-> "none"]

LookupAddCharge ==
    /\ Cardinality({p \in payments : p.from_account_type = "credit_card"}) < MaxLookupCharges
    /\ \E amount \in ChargeAmounts, due_date \in SyncChargeDates :
          create_one_time_payment(1, amount, "credit_card", 1, NoneStr, None,
                                  due_date, NoneStr)

LookupAddRecurring ==
    /\ ~\E p \in payments : p.payment_type = "recurring"
    /\ \E amount \in BaseAmounts :
          create_recurring_payment(1, amount, "bank_account", 1, NoneStr, None,
                                   "monthly", ToOrdinal(2026, 1, 31), None)

LookupGenerate ==
    \E payment_id \in LookupIds, user_id \in Users, up_to_date \in LookupUpToDates :
        generate_recurring_occurrences(payment_id, user_id, up_to_date)

LookupCycle ==
    \E card_id \in LookupIds, user_id \in Users, reference_date \in LookupRefs :
        call_get_invoice_cycle(card_id, user_id, reference_date)

LookupStatement ==
    \E card_id \in LookupIds, user_id \in Users, reference_date \in LookupRefs :
        call_get_statement_summary(card_id, user_id, reference_date)

LookupHistory ==
    \E card_id \in LookupIds, user_id \in Users, months \in LookupMonths :
        call_get_invoice_history(card_id, user_id, months)

LookupSync ==
    \E card_id \in LookupIds, user_id \in Users : sync_planned_payments(card_id, user_id)

NextLookup ==
    \/ LookupAddCharge
    \/ LookupAddRecurring
    \/ LookupGenerate
    \/ LookupCycle
    \/ LookupStatement
    \/ LookupHistory
    \/ LookupSync

SpecLookup == InitLookup /\ [][NextLookup]_vars

(***************************************************************************)
(* SpecOvr: a weekly payment, overrides of every type and scope, the       *)
(* generator and _is_date_affected                                         *)
(***************************************************************************)
MaxOvrOverrides == 2

OvrStart == ToOrdinal(2026, 4, 2)

OvrUpTo == ToOrdinal(2026, 4, 30)

\* the weekly dates of the payment up to OvrUpTo
OvrDates == {AddDays(OvrStart, 7 * k) : k \in 0..4}

\* the payloads of RecurringPaymentOverrideCreate; amounts in cents, 0 is 0.00
OvrOverrideData ==
    {d \in [override_type : {"skip", "change_amount", "change_date"},
            target_date : {None, ToOrdinal(2026, 4, 9)},
            effective_date : {ToOrdinal(2026, 4, 9), ToOrdinal(2026, 4, 16)},
            end_date : {None, ToOrdinal(2026, 4, 16)},
            occurrence_count : {None, 1},
            new_amount : {None, 0, 5000},
            new_due_date : {None, ToOrdinal(2026, 4, 20)}] :
        /\ (d.override_type = "change_amount") = (d.new_amount # None)
        /\ (d.override_type = "change_date") = (d.new_due_date # None)
        /\ d.occurrence_count # None => (d.target_date = None /\ d.end_date = None)}

OvrCreateRecurring ==
    /\ payments = {}
    /\ \E amount \in BaseAmounts :
          create_recurring_payment(1, amount, "bank_account", 1, NoneStr, None,
                                   "weekly", OvrStart, None)

OvrCreateOverride ==
    /\ Len(overrides) < MaxOvrOverrides
    /\ \E override_data \in OvrOverrideData :
          create_recurring_override_of_data(1, 1, override_data)

OvrGenerate == generate_recurring_occurrences(1, 1, OvrUpTo)

OvrIsDateAffected ==
    \E target_date \in OvrDates, i \in 1..Len(overrides) :
        call_is_date_affected(target_date, overrides[i])

NextOvr ==
    \/ OvrCreateRecurring
    \/ OvrCreateOverride
    \/ OvrGenerate
    \/ OvrIsDateAffected

SpecOvr == InitStore /\ [][NextOvr]_vars

(***************************************************************************)
(* SpecLoop: a recurring payment, updates of its schedule, and the         *)
(* generator's loop; an iteration that is due is taken                     *)
(***************************************************************************)
MaxLoopGenerated == 6

LoopSchedules ==
    {<<"weekly", ToOrdinal(2026, 4, 2), None>>,
     <<"weekly", ToOrdinal(2026, 4, 2), ToOrdinal(2026, 4, 16)>>,
     <<"monthly", ToOrdinal(2026, 1, 31), None>>}

LoopUpToDates == {ToOrdinal(2026, 3, 31), ToOrdinal(2026, 4, 30)}

\* PaymentUpdate payloads; frequency null is NoneStr
LoopUpdates ==
    {[frequency |-> NoneStr], [frequency |-> "monthly"],
     [end_date |-> ToOrdinal(2026, 4, 9)], [start_date |-> ToOrdinal(2026, 4, 3)]}

LoopCreateRecurring ==
    /\ payments = {}
    /\ \E schedule \in LoopSchedules, amount \in BaseAmounts :
          create_recurring_payment(1, amount, "bank_account", 1, NoneStr, None,
                                   schedule[1], schedule[2], schedule[3])

LoopUpdatePayment ==
    /\ ~Looping
    /\ \E update_data \in LoopUpdates : update_payment(1, 1, update_data)

LoopBegin ==
    \E up_to_date \in LoopUpToDates : begin_generate(1, 1, up_to_date)

LoopIteration ==
    /\ Looping
    /\ Len(last.generated) < MaxLoopGenerated
    /\ generate_iteration

LoopReturn == generate_return

NextLoop ==
    \/ LoopCreateRecurring
    \/ LoopUpdatePayment
    \/ LoopBegin
    \/ LoopIteration
    \/ LoopReturn

SpecLoop ==
    /\ InitStore
    /\ [][NextLoop]_vars
    /\ WF_vars(LoopIteration)
    /\ WF_vars(LoopReturn)

(***************************************************************************)
(* SpecAttr: one-time charges of a card whose dates are moved, and the     *)
(* statements of two consecutive cycles                                    *)
(***************************************************************************)
MaxAttrPayments == 2

\* a date of the cycle 2025-01-16 .. 2025-02-15 and one of the cycle after it
AttrDates == {ToOrdinal(2025, 2, 1), ToOrdinal(2025, 3, 1)}

AttrRefs == {ToOrdinal(2025, 2, 10), ToOrdinal(2025, 3, 10)}

InitAttr ==
    /\ bank_accounts = {}
    /\ cards = {NewCard(1, 1, 15, 10, None)}
    /\ payments = {}
    /\ occurrences = {}
    /\ overrides = <<>>
    /\ next_id = [payment |-> 1, occurrence |-> 1, override |-> 1]
    /\ last = [op |-> "none"]

AttrAddCharge ==
    /\ Cardinality(payments) < MaxAttrPayments
    /\ \E amount \in ChargeAmounts, due_date \in AttrDates :
          create_one_time_payment(1, amount, "credit_card", 1, NoneStr, None,
                                  due_date, NoneStr)

AttrUpdatePayment ==
    \E payment_id \in 1..MaxAttrPayments, due_date \in AttrDates :
        update_payment(payment_id, 1, [due_date |-> due_date])

AttrUpdateOccurrence ==
    \E occurrence_id \in 1..MaxAttrPayments, scheduled_date \in AttrDates :
        update_payment_occurrence(occurrence_id, 1, scheduled_date, None, NoneStr)

AttrStatement ==
    \E reference_date \in AttrRefs : call_get_statement_summary(1, 1, reference_date)

NextAttr ==
    \/ AttrAddCharge
    \/ AttrUpdatePayment
    \/ AttrUpdateOccurrence
    \/ AttrStatement

SpecAttr == InitAttr /\ [][NextAttr]_vars

(***************************************************************************)
(* SpecPlan: one card whose close day and due day are changed, the user's  *)
(* charges and payments, processed placeholders, and the sync              *)
(***************************************************************************)
MaxPlanPayments == 2

\* no sync or card update is started once this many payment ids are used
MaxPlanPaymentId == 4

\* 2025-02-01 is a date of the cycle of today; 2025-02-25 is its due date for
\* close day 15 and due day 10
PlanPaymentDates == {ToOrdinal(2025, 2, 1), ToOrdinal(2025, 2, 25)}

\* CreditCardUpdate payloads
PlanCardUpdates ==
    {[payment_due_day |-> 10], [payment_due_day |-> 12],
     [invoice_close_day |-> 15], [invoice_close_day |-> 20]}

InitPlan ==
    /\ bank_accounts = {CheckingAccount(TRUE)}
    /\ cards = {NewCard(1, 1, 15, 10, 1)}
    /\ payments = {}
    /\ occurrences = {}
    /\ overrides = <<>>
    /\ next_id = [payment |-> 1, occurrence |-> 1, override |-> 1]
    /\ last = [op |-> "none"]

PlanAddCharge ==
    /\ Cardinality(UserPayments) < MaxPlanPayments
    /\ \E amount \in ChargeAmounts, due_date \in SyncChargeDates :
          create_one_time_payment(1, amount, "credit_card", 1, NoneStr, None,
                                  due_date, NoneStr)

PlanAddPayment ==
    /\ Cardinality(UserPayments) < MaxPlanPayments
    /\ \E amount \in ChargeAmounts, due_date \in PlanPaymentDates :
          create_one_time_payment(1, amount, "bank_account", 1, "credit_card", 1,
                                  due_date, NoneStr)

\* the bank marks a placeholder as processed
PlanProcessPlaceholder ==
    \E p \in payments :
        /\ p.notes = planned_note(1)
        /\ p.status = "pending"
        /\ update_payment(p.id, 1, [status |-> "processed"])

PlanUpdateCard ==
    /\ next_id.payment <= MaxPlanPaymentId
    /\ \E update_data \in PlanCardUpdates : update_card(1, 1, update_data)

PlanSync ==
    /\ next_id.payment <= MaxPlanPaymentId
    /\ sync_planned_payments(1, 1)

NextPlan ==
    \/ PlanAddCharge
    \/ PlanAddPayment
    \/ PlanProcessPlaceholder
    \/ PlanUpdateCard
    \/ PlanSync

SpecPlan == InitPlan /\ [][NextPlan]_vars

(***************************************************************************)
(* Properties of the occurrence generator                                  *)
(***************************************************************************)
IsGenerate == last.op = "generate_recurring_occurrences"

OccurrencesOf(payment_id) == {o \in occurrences : o.payment_id = payment_id}

ScheduledDatesOf(payment_id) == {o.scheduled_date : o \in OccurrencesOf(payment_id)}

\* C2: a call of generate_recurring_occurrences that directly follows a call with
\* the same payment, user and up_to_date adds no occurrence and leaves the set of
\* occurrences as the first call left it.
C2_GenerateIdempotent ==
    [][(/\ IsGenerate
        /\ last'.op = "generate_recurring_occurrences"
        /\ last'.payment_id = last.payment_id
        /\ last'.user_id = last.user_id
        /\ last'.up_to_date = last.up_to_date)
       => (occurrences' = occurrences /\ last'.result = <<>>)]_vars

\* a repeated call on an active recurring payment whose first call generated rows
C2_Witness ==
    /\ IsGenerate
    /\ last.repeated
    /\ last.user_id = 1
    /\ last.result = <<>>
    /\ Cardinality(OccurrencesOf(last.payment_id)) >= 3

\* C3: no payment has two occurrences with the same scheduled_date.
C3_OneOccurrencePerDate ==
    \A o1 \in occurrences : \A o2 \in occurrences :
        (o1.payment_id = o2.payment_id /\ o1.scheduled_date = o2.scheduled_date) => o1 = o2

\* C4: a monthly payment starting 2026-01-31 without overrides, generated up to
\* 2026-04-30, has its occurrences on 01-31, 02-28, 03-31 and 04-30.
C4_MonthlyKeepsStartDay ==
    (/\ IsGenerate
     /\ last.user_id = 1
     /\ last.up_to_date = ToOrdinal(2026, 4, 30)
     /\ overrides = <<>>
     /\ \E p \in payments : /\ p.id = last.payment_id
                            /\ p.frequency = "monthly"
                            /\ p.start_date = ToOrdinal(2026, 1, 31)
                            /\ p.end_date = None)
    => ScheduledDatesOf(last.payment_id) =
         {ToOrdinal(2026, 1, 31), ToOrdinal(2026, 2, 28),
          ToOrdinal(2026, 3, 31), ToOrdinal(2026, 4, 30)}

\* an active override covers a date (spec, data model)
Covers(override, d) ==
    /\ d >= override.effective_date
    /\ (override.end_date = None \/ d <= override.end_date)
    /\ (override.target_date = None \/ d = override.target_date)

ActiveSkipCovers(payment_id, d) ==
    \E i \in 1..Len(overrides) :
        /\ overrides[i].payment_id = payment_id
        /\ overrides[i].is_active
        /\ overrides[i].override_type = "skip"
        /\ Covers(overrides[i], d)

\* C5: no occurrence returned by generate_recurring_occurrences is on a date that
\* an active skip override covers, whatever change_amount overrides also cover it.
C5_SkipWins ==
    IsGenerate =>
        \A i \in 1..Len(last.result) :
            ~ActiveSkipCovers(last.payment_id, last.result[i].scheduled_date)

\* generation with a change_amount override listed before a skip override, both
\* covering 2026-03-28: February is re-priced, nothing is created from March on
C5_Witness ==
    /\ IsGenerate
    /\ Len(overrides) = 2
    /\ overrides[1].override_type = "change_amount"
    /\ overrides[2].override_type = "skip"
    /\ Covers(overrides[1], ToOrdinal(2026, 3, 28))
    /\ Covers(overrides[2], ToOrdinal(2026, 3, 28))
    /\ last.up_to_date = ToOrdinal(2026, 4, 30)
    /\ \E i \in 1..Len(last.result) :
          /\ last.result[i].scheduled_date = ToOrdinal(2026, 2, 28)
          /\ last.result[i].amount \in NewAmounts

(***************************************************************************)
(* SpecCycle: the billing cycle of one card, for every close day and       *)
(* reference date of the window                                            *)
(***************************************************************************)
RefDays == 790

RefStart == ToOrdinal(2026, 2, 1)

RefDates == RefStart..(RefStart + RefDays - 1)

DueDays == {10, 20, 31}

InitCycle ==
    /\ \E invoice_close_day \in 1..31, payment_due_day \in DueDays :
          cards = {NewCard(1, 1, invoice_close_day, payment_due_day, None)}
    /\ bank_accounts = {}
    /\ payments = {}
    /\ occurrences = {}
    /\ overrides = <<>>
    /\ next_id = [payment |-> 1, occurrence |-> 1, override |-> 1]
    /\ last = [op |-> "none"]

GetInvoiceCycle ==
    /\ last.op = "none"
    /\ \E user_id \in Users, reference_date \in RefDates :
          /\ (user_id = 1 \/ DayOf(reference_date) = 1)
          /\ last' = [op |-> "get_invoice_cycle", card_id |-> 1, user_id |-> user_id,
                      reference_date |-> reference_date,
                      result |-> get_invoice_cycle(1, user_id, reference_date)]
    /\ UNCHANGED <<cards, bank_accounts, payments, occurrences, overrides, next_id>>

BuildDateWithDay ==
    /\ last.op = "none"
    /\ \E reference_date \in RefDates, card \in cards :
          /\ DayOf(reference_date) = 1
          /\ last' = [op |-> "build_date_with_day", year |-> YearOf(reference_date),
                      month |-> MonthOf(reference_date), day |-> card.invoice_close_day,
                      result |-> build_date_with_day(YearOf(reference_date),
                                                     MonthOf(reference_date),
                                                     card.invoice_close_day)]
    /\ UNCHANGED <<cards, bank_accounts, payments, occurrences, overrides, next_id>>

NextCycle ==
    \/ GetInvoiceCycle
    \/ BuildDateWithDay

SpecCycle == InitCycle /\ [][NextCycle]_vars

(***************************************************************************)
(* Properties of the billing cycle                                         *)
(***************************************************************************)
TheCard == CHOOSE c \in cards : c.id = 1

CycleReturned == last.op = "get_invoice_cycle" /\ last.result.found

\* C(m): the close date of a month, day = min(invoice_close_day, days in month)
CloseDateOf(y, m, invoice_close_day) ==
    ToOrdinal(y, m, IF invoice_close_day > DaysInMonth(y, m)
                    THEN DaysInMonth(y, m) ELSE invoice_close_day)

PrevCloseDateOf(y, m, k) ==
    IF m = 1 THEN CloseDateOf(y - 1, 12, k) ELSE CloseDateOf(y, m - 1, k)

NextCloseDateOf(y, m, k) ==
    IF m = 12 THEN CloseDateOf(y + 1, 1, k) ELSE CloseDateOf(y, m + 1, k)

\* C6: the two-branch rule of get_invoice_cycle, and its two examples.
C6_TwoBranchCycle ==
    CycleReturned =>
        LET d == last.reference_date
            y == YearOf(d)
            m == MonthOf(d)
            k == TheCard.invoice_close_day
            r == last.result
        IN  /\ d <= CloseDateOf(y, m, k) =>
                  /\ r.cycle_start_date = PrevCloseDateOf(y, m, k) + 1
                  /\ r.cycle_end_date = CloseDateOf(y, m, k)
            /\ d > CloseDateOf(y, m, k) =>
                  /\ r.cycle_start_date = CloseDateOf(y, m, k) + 1
                  /\ r.cycle_end_date = NextCloseDateOf(y, m, k)
            /\ (k = 15 /\ d = ToOrdinal(2026, 3, 20)) =>
                  /\ r.cycle_start_date = ToOrdinal(2026, 3, 16)
                  /\ r.cycle_end_date = ToOrdinal(2026, 4, 15)
            /\ (k = 15 /\ d = ToOrdinal(2026, 2, 10)) =>
                  /\ r.cycle_start_date = ToOrdinal(2026, 1, 16)
                  /\ r.cycle_end_date = ToOrdinal(2026, 2, 15)

\* a December reference date after the close date: the cycle ends in January
C6_Witness ==
    /\ CycleReturned
    /\ TheCard.invoice_close_day = 15
    /\ last.reference_date = ToOrdinal(2026, 12, 20)
    /\ last.result.cycle_start_date = ToOrdinal(2026, 12, 16)
    /\ last.result.cycle_end_date = ToOrdinal(2027, 1, 15)

\* C7: a reference date equal to the close date of its month is the last day of
\* the cycle returned for it.
C7_CloseDateEndsItsCycle ==
    (/\ CycleReturned
     /\ last.reference_date = CloseDateOf(YearOf(last.reference_date),
                                          MonthOf(last.reference_date),
                                          TheCard.invoice_close_day))
    => last.result.cycle_end_date = last.reference_date

\* close day 31 in leap February: the reference date 2028-02-29 is the close date
C7_Witness ==
    /\ CycleReturned
    /\ TheCard.invoice_close_day = 31
    /\ last.reference_date = ToOrdinal(2028, 2, 29)
    /\ last.result.cycle_end_date = ToOrdinal(2028, 2, 29)
    /\ last.result.cycle_start_date = ToOrdinal(2028, 2, 1)

\* C8: the close date computed for a year, month and invoice_close_day is a date of
\* that month with day = min(invoice_close_day, days in the month); no ValueError.
C8_CloseDayClamped ==
    last.op = "build_date_with_day" =>
        /\ last.result # ValueError
        /\ YearOf(last.result) = last.year
        /\ MonthOf(last.result) = last.month
        /\ DayOf(last.result) = (IF last.day > DaysInMonth(last.year, last.month)
                                 THEN DaysInMonth(last.year, last.month) ELSE last.day)

\* close day 31 in a 30-day month
C8_Witness ==
    /\ last.op = "build_date_with_day"
    /\ last.day = 31
    /\ last.year = 2026
    /\ last.month = 4
    /\ last.result = ToOrdinal(2026, 4, 30)

\* C9: close_date is cycle_end_date, and due_date is close_date plus
\* payment_due_day calendar days.
C9_DueDateIsDayOffset ==
    CycleReturned =>
        LET r == last.result
        IN  /\ r.close_date = r.cycle_end_date
            /\ r.due_date = r.close_date + TheCard.payment_due_day
            /\ (r.close_date = ToOrdinal(2026, 4, 15) /\ TheCard.payment_due_day = 10)
                   => r.due_date = ToOrdinal(2026, 4, 25)
            /\ (r.close_date = ToOrdinal(2026, 2, 15) /\ TheCard.payment_due_day = 20)
                   => r.due_date = ToOrdinal(2026, 3, 7)

\* the test's case: close 2026-02-15, 20 days later is in March
C9_Witness ==
    /\ CycleReturned
    /\ TheCard.invoice_close_day = 15
    /\ TheCard.payment_due_day = 20
    /\ last.reference_date = ToOrdinal(2026, 2, 10)
    /\ last.result.close_date = ToOrdinal(2026, 2, 15)
    /\ last.result.due_date = ToOrdinal(2026, 3, 7)

(***************************************************************************)
(* Properties of the statement summary and of the synchronisation          *)
(***************************************************************************)
IsSync == last.op = "sync_planned_payments"

\* C1: a sync_planned_payments call that directly follows a successful call for
\* the same card and user creates, updates and deletes no Payment row.
C1_SyncIdempotent ==
    [][(/\ IsSync
        /\ last.result
        /\ last'.op = "sync_planned_payments"
        /\ last'.card_id = last.card_id
        /\ last'.user_id = last.user_id)
       => payments' = payments]_vars

SummaryReturned == last.op = "get_statement_summary" /\ last.result.found

RECURSIVE SumOfDirection(_, _)
SumOfDirection(lines, direction) ==
    IF lines = <<>> THEN 0
    ELSE (IF Head(lines).direction = direction THEN Head(lines).amount ELSE 0)
         + SumOfDirection(Tail(lines), direction)

\* C10: in every statement returned, the balance is charges minus payments, the
\* totals are the sums of the lines of their direction, and the count is the
\* number of lines; a charge of 120.00 and a payment of 70.00 give 50.00 and 2.
C10_StatementTotals ==
    SummaryReturned =>
        LET r == last.result
        IN  /\ r.statement_balance = r.charges_total - r.payments_total
            /\ r.charges_total = SumOfDirection(r.transactions, "charge")
            /\ r.payments_total = SumOfDirection(r.transactions, "payment")
            /\ r.transaction_count = Len(r.transactions)
            /\ (/\ Len(r.transactions) = 2
                /\ \E i \in 1..2 : /\ r.transactions[i].direction = "charge"
                                   /\ r.transactions[i].amount = 12000
                /\ \E i \in 1..2 : /\ r.transactions[i].direction = "payment"
                                   /\ r.transactions[i].amount = 7000)
               => (r.statement_balance = 5000 /\ r.transaction_count = 2)

\* the statement of a cycle holding one charge of 120.00 and one payment of 70.00
C10_Witness ==
    /\ SummaryReturned
    /\ last.result.transaction_count = 2
    /\ last.result.charges_total = 12000
    /\ last.result.payments_total = 7000
    /\ last.result.statement_balance = 5000

\* C15: a call of generate_recurring_occurrences keeps every occurrence that
\* existed before it, with all its fields, whatever overrides now cover its date,
\* and leaves the payments and the overrides as they are.
C15_GenerateOnlyAdds ==
    [][last'.op = "generate_recurring_occurrences" =>
          /\ occurrences \subseteq occurrences'
          /\ payments' = payments
          /\ overrides' = overrides]_vars

\* a call has added occurrences at the overriding amount while an occurrence
\* generated earlier, on a date the change_amount override now covers, keeps
\* the base amount
C15_Witness ==
    /\ IsGenerate
    /\ last.result # <<>>
    /\ \E o \in OccurrencesOf(last.payment_id) :
           /\ \A i \in 1..Len(last.result) : last.result[i].id # o.id
           /\ o.amount \in BaseAmounts
           /\ \E k \in 1..Len(overrides) :
                  /\ overrides[k].override_type = "change_amount"
                  /\ overrides[k].new_amount # o.amount
                  /\ Covers(overrides[k], o.scheduled_date)

(***************************************************************************)
(* Properties of one invocation, write by write (SpecTxn)                  *)
(***************************************************************************)
TxnCard == CHOOSE c \in cards : c.id = 1

\* C16: while generation or sync runs, the committed rows change only at its
\* commit, where they become the rows after the whole batch; after a failure
\* they are the rows from before the invocation; the rows a sync commits are
\* the rows of the whole reconciliation.
C16_AllOrNothing ==
    [][last'.op \in InvocationOps =>
          /\ (last'.phase = "running" \/ last'.phase = "failed") => Store' = last'.before
          /\ last'.phase = "committed" =>
                 Store' = (IF last'.views = <<>> THEN last'.before
                           ELSE last'.views[Len(last'.views)])
          /\ (last'.phase = "committed" /\ last'.op = "sync_planned_payments") =>
                 payments' = sync_planned_payments_of_card(
                                 card_with_default_account(TxnCard, TxnCard.user_id)).payments]_vars

\* an invocation has failed after some of its writes, which would have changed
\* the rows, and before others
C16_Witness ==
    /\ last.op \in InvocationOps
    /\ last.phase = "failed"
    /\ last.issued >= 1
    /\ last.issued < Len(last.views)
    /\ last.views[last.issued] # last.before
    /\ last.views[Len(last.views)] # last.views[last.issued]
    /\ Store = last.before

(***************************************************************************)
(* Properties of the planned-payment sync (SpecSync)                       *)
(***************************************************************************)
\* the card being synced, as it is before the call
SyncedCard == CHOOSE c \in cards : c.id = 1

\* the step is a call of sync_planned_payments on card 1 by its owner
SyncStep ==
    /\ last'.op = "sync_planned_payments"
    /\ last'.card_id = SyncedCard.id
    /\ last'.user_id = SyncedCard.user_id

\* the due dates of the cycles of the planning horizon
DesiredDueDates(card) ==
    {cycle_of_card(card, plan_reference(shift_month(YearOf(Today), MonthOf(Today), k - 1))).due_date :
        k \in 1..PLANNED_PAYMENT_MONTHS_AHEAD}

HasMarker(p, card) == p.notes = planned_note(card.id)

\* a one-time payment to the card entered by its owner, neither cancelled nor failed
UserEnteredAt(p, card, due_date) ==
    /\ p.user_id = card.user_id
    /\ p.payment_type = "one_time"
    /\ p.to_account_type = "credit_card"
    /\ p.to_account_id = card.id
    /\ ~HasMarker(p, card)
    /\ p.status \notin Excluded
    /\ p.due_date = due_date

BlockedDueDates(card) ==
    {d \in DesiredDueDates(card) : \E p \in payments : UserEnteredAt(p, card, d)}

C12_UserPaymentsUntouched ==
    [][last'.op = "sync_planned_payments" =>
          /\ \A p \in payments : ~HasMarker(p, SyncedCard) => p \in payments'
          /\ \A q \in payments' \ payments : HasMarker(q, SyncedCard)]_vars

\* a sync has created a placeholder while user-entered payments to card 1, to
\* card 2 and of user 2 are in the store
C12_Witness ==
    /\ IsSync /\ last.result
    /\ \E q \in payments : HasMarker(q, SyncedCard) /\ q.status = "pending"
    /\ \E p \in payments : /\ ~HasMarker(p, SyncedCard)
                            /\ p.to_account_type = "credit_card"
                            /\ (p.to_account_id = 2 \/ p.user_id = 2)

NoActiveAccount(user_id) == ~\E b \in bank_accounts : b.user_id = user_id /\ b.is_active

\* C13: a sync of a card without default payment account whose owner has no
\* active bank account returns normally and creates, updates and deletes no
\* Payment row.
C13_NoAccountNoOp ==
    [][(/\ SyncStep
        /\ SyncedCard.default_payment_account_id = None
        /\ NoActiveAccount(SyncedCard.user_id))
       => (payments' = payments /\ last'.result = TRUE)]_vars

\* such a sync has returned while a charge of the cycle is waiting to be planned
C13_Witness ==
    /\ IsSync /\ last.result /\ last.card_id = 1
    /\ SyncedCard.default_payment_account_id = None
    /\ NoActiveAccount(1)
    /\ \E p \in payments : /\ p.from_account_type = "credit_card"
                            /\ p.from_account_id = 1
                            /\ p.status = "pending"

(***************************************************************************)
(* Properties of the statement and cycle reads (SpecStmt)                  *)
(***************************************************************************)
ReadOps == {"get_statement_summary", "get_invoice_cycle"}

PaymentById(payment_id) == CHOOSE p \in payments : p.id = payment_id

LinesOf(result) == {result.transactions[i] : i \in 1..Len(result.transactions)}

\* C18: every line of a statement is a payment with signed_amount = -amount when
\* its payment's destination is the card of the statement (also when the card
\* is the source as well), and a charge with signed_amount = +amount otherwise.
C18_LineDirection ==
    SummaryReturned =>
        \A t \in LinesOf(last.result) :
            LET p == PaymentById(t.payment_id)
            IN  IF p.to_account_type = "credit_card" /\ p.to_account_id = last.card_id
                THEN t.direction = "payment" /\ t.signed_amount = -t.amount
                ELSE /\ t.direction = "charge" /\ t.signed_amount = t.amount
                     /\ p.from_account_type = "credit_card"
                     /\ p.from_account_id = last.card_id

\* a statement of card 1 holds a line of a payment from card 1 to card 1
C18_Witness ==
    /\ SummaryReturned
    /\ last.card_id = 1
    /\ \E t \in LinesOf(last.result) :
           /\ PaymentById(t.payment_id).from_account_type = "credit_card"
           /\ PaymentById(t.payment_id).from_account_id = 1
           /\ PaymentById(t.payment_id).to_account_type = "credit_card"
           /\ PaymentById(t.payment_id).to_account_id = 1
           /\ t.direction = "payment"
           /\ t.signed_amount = -12000

\* the occurrences of a payment that a statement of the returned cycle includes
IncludedOccurrences(p, result) ==
    {o \in occurrences :
        /\ o.payment_id = p.id
        /\ o.scheduled_date >= result.cycle_start_date
        /\ o.scheduled_date <= result.cycle_end_date
        /\ o.status \notin Excluded}

OccurrencesInCycle(p, result) ==
    {o \in occurrences :
        /\ o.payment_id = p.id
        /\ o.scheduled_date >= result.cycle_start_date
        /\ o.scheduled_date <= result.cycle_end_date}

\* C19: in a statement, a payment with an included occurrence in the cycle has
\* no line without occurrence_id, and each of its lines is the line of one of
\* its included occurrences, with that occurrence's amount.
C19_CountedOnce ==
    SummaryReturned =>
        \A p \in payments :
            IncludedOccurrences(p, last.result) # {} =>
                \A t \in LinesOf(last.result) :
                    t.payment_id = p.id =>
                        /\ t.occurrence_id # None
                        /\ \E o \in IncludedOccurrences(p, last.result) :
                               o.id = t.occurrence_id /\ o.amount = t.amount

\* a statement holds the occurrence line of a pending payment whose own
\* due_date is in the cycle as well
C19_Witness ==
    /\ SummaryReturned
    /\ \E p \in payments :
           /\ p.status = "pending"
           /\ p.due_date >= last.result.cycle_start_date
           /\ p.due_date <= last.result.cycle_end_date
           /\ IncludedOccurrences(p, last.result) # {}
           /\ \E t \in LinesOf(last.result) : t.payment_id = p.id /\ t.occurrence_id # None

\* C20: a statement has no line of a payment whose only occurrence in the cycle
\* is cancelled or failed, and no line of a cancelled or failed payment without
\* occurrence.
C20_CancelledExcluded ==
    SummaryReturned =>
        \A p \in payments :
            (\/ /\ Cardinality(OccurrencesInCycle(p, last.result)) = 1
                /\ IncludedOccurrences(p, last.result) = {}
             \/ /\ p.status \in Excluded
                /\ ~\E o \in occurrences : o.payment_id = p.id)
            => ~\E t \in LinesOf(last.result) : t.payment_id = p.id

(***************************************************************************)
(* Properties of the calls by id (SpecLookup)                              *)
(***************************************************************************)
CardOps == {"get_invoice_cycle", "get_statement_summary", "get_invoice_history",
            "sync_planned_payments"}

LookupOps == CardOps \cup {"generate_recurring_occurrences"}

\* the call names a row that does not exist or belongs to another user
TargetMissing(call) ==
    IF call.op \in CardOps
    THEN ~\E c \in cards : c.id = call.card_id /\ c.user_id = call.user_id
    ELSE ~\E p \in payments : p.id = call.payment_id /\ p.user_id = call.user_id

\* the call names a row of the user on which the function does its work:
\* a card, or an active recurring payment
TargetServed(call) ==
    IF call.op \in CardOps
    THEN \E c \in cards : c.id = call.card_id /\ c.user_id = call.user_id
    ELSE \E p \in payments : /\ p.id = call.payment_id /\ p.user_id = call.user_id
                              /\ p.payment_type = "recurring" /\ p.is_active

\* the outcome the function has for a row it does not find
NotFoundOutcome(call) ==
    IF call.op = "generate_recurring_occurrences" THEN call.result = <<>>
    ELSE IF call.op = "sync_planned_payments" THEN call.result = FALSE
    ELSE ~call.result.found

\* C17: a call of generate_recurring_occurrences, get_invoice_cycle,
\* get_statement_summary, get_invoice_history or sync_planned_payments for a row
\* that does not exist or belongs to another user changes no row and returns
\* the not-found outcome, and no successful call for a row of the user returns
\* that outcome.
C17_NotFoundIsTold ==
    [][last'.op \in LookupOps =>
          /\ TargetMissing(last') =>
                /\ NotFoundOutcome(last')
                /\ UNCHANGED <<cards, bank_accounts, payments, occurrences, overrides>>
          /\ TargetServed(last') => ~NotFoundOutcome(last')]_vars

(***************************************************************************)
(* Billing cycles as a tiling of the calendar (SpecCycle)                  *)
(***************************************************************************)
SameCycle(c1, c2) ==
    /\ c1.cycle_start_date = c2.cycle_start_date
    /\ c1.cycle_end_date = c2.cycle_end_date

\* C27: the cycle returned for a reference date contains it, every date of the
\* cycle has the same cycle, and the cycle of the day after cycle_end_date starts
\* on that day.
C27_CyclesTile ==
    CycleReturned =>
        /\ last.result.cycle_start_date <= last.reference_date
        /\ last.reference_date <= last.result.cycle_end_date
        /\ \A e \in last.result.cycle_start_date..last.result.cycle_end_date :
              SameCycle(cycle_of_card(TheCard, e), last.result)
        /\ cycle_of_card(TheCard, last.result.cycle_end_date + 1).cycle_start_date
              = last.result.cycle_end_date + 1

\* close day 31: the cycle of February 2027 follows the one that ends 2027-01-31,
\* and the cycle across the year boundary for close day 15
C27_Witness ==
    /\ CycleReturned
    /\ \/ /\ TheCard.invoice_close_day = 31
          /\ last.reference_date = ToOrdinal(2027, 2, 10)
          /\ last.result.cycle_start_date = ToOrdinal(2027, 2, 1)
          /\ last.result.cycle_end_date = ToOrdinal(2027, 2, 28)
       \/ /\ TheCard.invoice_close_day = 15
          /\ last.reference_date = ToOrdinal(2027, 1, 2)
          /\ last.result.cycle_start_date = ToOrdinal(2026, 12, 16)
          /\ last.result.cycle_end_date = ToOrdinal(2027, 1, 15)

(***************************************************************************)
(* Termination of the generator (SpecLoop)                                 *)
(***************************************************************************)
Returned == last.op = "generate_recurring_occurrences" /\ last.phase = "returned"

\* C25: a call of generate_recurring_occurrences on an active recurring payment
\* returns, whatever update_payment calls came before it, and every occurrence
\* it created lies between start_date and min(up_to_date, end_date).
C25_GenerateTerminates ==
    /\ Looping ~> Returned
    /\ [](Returned =>
            \A i \in 1..Len(last.generated) :
                /\ last.payment.start_date <= last.generated[i].scheduled_date
                /\ last.generated[i].scheduled_date <= last.limit)

(***************************************************************************)
(* Attribution of one-time payments to cycles (SpecAttr)                   *)
(***************************************************************************)
\* the one-time payments that have a line in the statement of a reference date
OneTimeIdsIn(reference_date) ==
    {l.payment_id : l \in {x \in LinesOf(get_statement_summary(1, 1, reference_date)) :
                              PaymentById(x.payment_id).payment_type = "one_time"}}

\* C30: no one-time payment has a line in the statements of two reference dates
\* that lie in different cycles of the card.
C30_OneCyclePerPayment ==
    \A r1 \in AttrRefs : \A r2 \in AttrRefs :
        ~SameCycle(get_invoice_cycle(1, 1, r1), get_invoice_cycle(1, 1, r2))
        => OneTimeIdsIn(r1) \cap OneTimeIdsIn(r2) = {}

(***************************************************************************)
(* Properties of the overrides (SpecOvr)                                   *)
(***************************************************************************)
\* C24: _is_date_affected(date, override) is true exactly when the date is on or
\* after effective_date, on or before end_date when there is one, and equal to
\* target_date when there is one.
C24_DateAffected ==
    last.op = "_is_date_affected" =>
        last.result =
            (/\ last.target_date >= last.override.effective_date
             /\ (last.override.end_date = None
                    \/ last.target_date <= last.override.end_date)
             /\ (last.override.target_date = None
                    \/ last.target_date = last.override.target_date))

\* a date inside the range of an override whose target_date is another date, and
\* a target_date earlier than the effective_date
C24_Witness ==
    /\ last.op = "_is_date_affected"
    /\ last.override.target_date # None
    /\ last.override.target_date < last.override.effective_date
    /\ last.override.end_date # None
    /\ last.target_date >= last.override.effective_date
    /\ last.target_date <= last.override.end_date
    /\ last.result = FALSE

\* the active change_amount overrides of the payment that cover date d
CoveringChanges(payment_id, d) ==
    {i \in 1..Len(overrides) :
        /\ overrides[i].payment_id = payment_id
        /\ overrides[i].is_active
        /\ overrides[i].override_type = "change_amount"
        /\ Covers(overrides[i], d)}

\* the last of them: the latest effective_date, the latest created among equals
LastChange(changes) ==
    CHOOSE i \in changes : \A j \in changes :
        \/ overrides[j].effective_date < overrides[i].effective_date
        \/ (overrides[j].effective_date = overrides[i].effective_date /\ j <= i)

ExpectedAmount(payment_id, d) ==
    IF CoveringChanges(payment_id, d) = {} THEN PaymentById(payment_id).amount
    ELSE overrides[LastChange(CoveringChanges(payment_id, d))].new_amount

\* C22: every occurrence returned by generate_recurring_occurrences has the
\* new_amount of the last active change_amount override covering its date (the
\* later effective_date winning), 0.00 included, and the payment's base amount
\* when no change_amount override covers the date.
C22_LastChangeAmountWins ==
    IsGenerate =>
        \A i \in 1..Len(last.result) :
            last.result[i].amount = ExpectedAmount(last.payment_id, last.result[i].scheduled_date)

\* the overrides of the payment that are not change_date overrides
WithoutChangeDate(payment_id) ==
    LET Keep(o) == o.override_type # "change_date"
    IN  SelectSeq(active_overrides(payment_id), Keep)

\* C23: generate_recurring_occurrences returns what it would return with the
\* active change_date overrides of the payment removed, and every occurrence it
\* returns has due_date = scheduled_date and status scheduled.
C23_ChangeDateHasNoEffect ==
    [][last'.op = "generate_recurring_occurrences" =>
          /\ last'.result = generate_with_overrides(last'.payment_id, last'.user_id,
                                                    last'.up_to_date,
                                                    WithoutChangeDate(last'.payment_id))
          /\ \A i \in 1..Len(last'.result) :
                /\ last'.result[i].due_date = last'.result[i].scheduled_date
                /\ last'.result[i].status = "scheduled"]_vars

\* a generation that created occurrences on dates which an active change_date
\* override with a new_due_date covers
C23_Witness ==
    /\ IsGenerate
    /\ Len(last.result) >= 3
    /\ \E k \in 1..Len(overrides) :
          /\ overrides[k].override_type = "change_date"
          /\ overrides[k].new_due_date # None
          /\ overrides[k].target_date = None
          /\ \E i \in 1..Len(last.result) : Covers(overrides[k], last.result[i].scheduled_date)

\* the dates of the payment's schedule from d up to limit
RECURSIVE CandidateDates(_, _, _)
CandidateDates(d, frequency, limit) ==
    IF d > limit THEN {}
    ELSE {d} \cup CandidateDates(calculate_next_due_date(d, frequency), frequency, limit)

\* the candidate dates that only override k covers and that were skipped or
\* re-priced
AffectedBy(k, payment, limit) ==
    {d \in CandidateDates(payment.start_date, payment.frequency, limit) :
        /\ Covers(overrides[k], d)
        /\ \A j \in 1..Len(overrides) : j # k => ~Covers(overrides[j], d)
        /\ \/ d \notin ScheduledDatesOf(payment.id)
           \/ \E o \in OccurrencesOf(payment.id) :
                 o.scheduled_date = d /\ o.amount # payment.amount}

\* C26: after a generation, an active override with occurrence_count = n has
\* skipped or re-priced at most n of the payment's candidate dates.
C26_OccurrenceCountLimits ==
    (IsGenerate /\ last.user_id = 1 /\ last.up_to_date # None) =>
        \A k \in 1..Len(overrides) :
            (/\ overrides[k].payment_id = last.payment_id
             /\ overrides[k].is_active
             /\ overrides[k].occurrence_count # None)
            => Cardinality(AffectedBy(k, PaymentById(last.payment_id), last.up_to_date))
                 <= overrides[k].occurrence_count

(***************************************************************************)
(* Properties of the placeholders (SpecPlan)                               *)
(***************************************************************************)
\* the reference dates of the planning horizon
PlanRefs ==
    {plan_reference(shift_month(YearOf(Today), MonthOf(Today), k - 1)) :
        k \in 1..PLANNED_PAYMENT_MONTHS_AHEAD}

\* a machine-managed placeholder of the card: the marker, not cancelled or failed
LivePlaceholder(p, card) == HasMarker(p, card) /\ p.status \notin Excluded

\* the statement balance of the cycle of a reference date, floored at zero
BalanceDue(card, reference) ==
    IF get_statement_summary(card.id, card.user_id, reference).statement_balance > 0
    THEN get_statement_summary(card.id, card.user_id, reference).statement_balance
    ELSE 0

\* C21: after a sync of a card with a default payment account, at every desired
\* due date without a user-authored payment, a placeholder exists iff the
\* balance of that date's cycle before the sync, floored at zero, is positive;
\* it is then a one-time pending payment of that amount from the default bank
\* account to the card, with the marker.
C21_SyncPostcondition ==
    [][(SyncStep /\ SyncedCard.default_payment_account_id # None) =>
          \A r \in PlanRefs :
              (~\E p \in payments :
                    UserEnteredAt(p, SyncedCard, get_invoice_cycle(1, 1, r).due_date))
              => /\ (\E q \in payments' :
                        /\ LivePlaceholder(q, SyncedCard)
                        /\ q.due_date = get_invoice_cycle(1, 1, r).due_date)
                      = (BalanceDue(SyncedCard, r) > 0)
                 /\ \A q \in payments' :
                        (/\ LivePlaceholder(q, SyncedCard)
                         /\ q.due_date = get_invoice_cycle(1, 1, r).due_date)
                        => /\ q.payment_type = "one_time"
                           /\ q.amount = BalanceDue(SyncedCard, r)
                           /\ q.status = "pending"
                           /\ q.from_account_type = "bank_account"
                           /\ q.from_account_id = SyncedCard.default_payment_account_id
                           /\ q.to_account_type = "credit_card"
                           /\ q.to_account_id = SyncedCard.id
                           /\ q.notes = planned_note(SyncedCard.id)]_vars

\* a sync has raised a placeholder that is older than the second charge to the
\* sum of the two charges, in place
C21_Witness ==
    /\ IsSync /\ last.result
    /\ \E q \in payments : \E c \in payments :
          /\ LivePlaceholder(q, SyncedCard)
          /\ q.status = "pending"
          /\ q.amount = 24000
          /\ c.from_account_type = "credit_card"
          /\ q.id < c.id

\* C28: right after a sync, every live placeholder of the card is at one of the
\* due dates of the card's present schedule.
C28_NoStalePlaceholder ==
    (IsSync /\ last.result) =>
        \A q \in payments :
            LivePlaceholder(q, SyncedCard) => q.due_date \in DesiredDueDates(SyncedCard)

\* C29: no two live placeholders of the card have the same due date.
C29_OnePlaceholderPerDueDate ==
    \A q1 \in payments : \A q2 \in payments :
        (/\ LivePlaceholder(q1, SyncedCard)
         /\ LivePlaceholder(q2, SyncedCard)
         /\ q1.due_date = q2.due_date)
        => q1 = q2

\* the schedule was changed and changed back, and a sync found the placeholder
\* of the first schedule again next to the one of the second
C29_Witness ==
    /\ IsSync /\ last.result
    /\ SyncedCard.payment_due_day = 10
    /\ SyncedCard.invoice_close_day = 15
    /\ \E q1 \in payments : \E q2 \in payments :
          /\ LivePlaceholder(q1, SyncedCard)
          /\ LivePlaceholder(q2, SyncedCard)
          /\ q1.due_date = ToOrdinal(2025, 2, 25)
          /\ q2.due_date = ToOrdinal(2025, 2, 27)

====
